---- MODULE Spec2Model ----
(***************************************************************************)
(* Model of the Automote LinkedIn scrapers.                                *)
(*                                                                         *)
(*   - linkedinscraper.js: main, isValidLinkedInUrl, the retry loop of     *)
(*     scrapeLinkedInProfile with its per-attempt stages, detectAuthWall,  *)
(*     extractPublicProfileData and cleanText.                             *)
(*                                                                         *)
(* Texts are sequences of one-character strings, so that substring tests   *)
(* and text normalisation are computed and not assumed.                    *)
(***************************************************************************)
EXTENDS Integers, Sequences, FiniteSets, TLC

VARIABLES
    env,            \* process.env.MAX_RETRIES as given to the process
    argv,           \* process.argv[2]
    pc,             \* position of the controller (main / scrapeLinkedInProfile)
    retryCount,     \* let retryCount
    success,        \* let success
    finalData,      \* let finalData
    browser,        \* let browser (0 is null, otherwise an index into browsers)
    context,        \* const context of the running attempt (0: none)
    page,           \* const page of the running attempt (0: none)
    isAuthWall,     \* const isAuthWall of the running attempt
    html,           \* length of const html of the running attempt (0: none yet)
    authIndicators, \* the 14 signals the loaded page shows to detectAuthWall
    browsers,       \* every browser ever launched
    contexts,       \* every context ever created
    pages,          \* every page ever created
    attempts,       \* number of loop iterations started
    outcomes,       \* outcome of every finished attempt, in order
    curOutcome,     \* outcome of the running attempt so far
    backoff,        \* wait (ms) that preceded the running attempt
    popupCalls,     \* closePopups invocations of the running attempt
    file,           \* content of CONFIG.OUTPUT_FILE
    saveCalls,      \* number of saveToJson invocations
    printed,        \* record printed by console.log(JSON.stringify(finalData))
    outcome,        \* final status logged by scrapeLinkedInProfile
    exitCode,       \* process exit status (NoExit while running)
    profileData,    \* const profileData of extractPublicProfileData
    xpc,            \* position inside extractPublicProfileData
    ldIndex,        \* number of retained JSON-LD blocks already merged
    cand,           \* per field: first non-empty candidate in source order
    ldName,         \* name of the first retained JSON-LD block with a name
    ogSeen,         \* og:title value found by extractMetaTags
    focus,          \* the field whose sources the page under extraction carries
    preLdName,      \* profileData.name when the JSON-LD loop is entered
    scripts,        \* extractJsonLd: the script elements of html, in order
    lastIndex,      \* extractJsonLd: script elements jsonLdRegex has passed
    structuredData, \* extractJsonLd: const structuredData
    ldRaised,       \* extractJsonLd: an exception left the function
    ldPc,           \* extractJsonLd: position ("idle", "scan", "done")
    expItem,        \* parseOneLineExperience: the item the map callback runs on
    expText,        \* parseOneLineExperience: const text
    expDuration,    \* parseOneLineExperience: const duration
    expTotalTime,   \* parseOneLineExperience: const total_time
    expEntry,       \* parseOneLineExperience: what the callback returned for it
    expRaised,      \* parseOneLineExperience: an exception left the function
    expPc,          \* parseOneLineExperience: "idle", "match", "clean", "done"
    sArgv,          \* scrapper.js: process.argv[2] of the running process
    sPc,            \* scrapper.js: position of the script
    sBrowser,       \* scrapper.js: const browser ("none", "open", "closed")
    sData,          \* scrapper.js: const data
    existingData,   \* scrapper.js: let existingData
    profileJson,    \* scrapper.js: the file profile.json
    sRead,          \* scrapper.js: what readJson returned in this run
    sLoaded,        \* scrapper.js: the elements of existingData before the push
    sSaved,         \* scrapper.js: writeJson of this run has completed
    sError,         \* scrapper.js: the call whose rejection ended this run
    sExit,          \* scrapper.js: exit status of the process (NoExit: running)
    sRuns,          \* scrapper.js: processes started so far
    secDoc,         \* getSectionByHeading: the h2 elements of the document
    secHeading,     \* getSectionByHeading: the argument heading
    secResult,      \* getSectionByHeading: the returned array
    secRaised,      \* getSectionByHeading: an exception left the function
    secPc,          \* getSectionByHeading: position ("idle", "call", "done")
    ctText,         \* cleanText: the text given to the first call
    ctOnce,         \* cleanText: cleanText(text)
    ctTwice,        \* cleanText: cleanText(cleanText(text))
    ctPc,           \* cleanText: position ("idle", "raw", "once", "twice")
    popDom,         \* closePopups: what the locators of the call find
    popPc,          \* closePopups: position of the call
    popSel,         \* closePopups: index of the selector the loop is at
    popEl,          \* closePopups: index of the element the inner loop is at
    popupClosed,    \* closePopups: let popupClosed
    popClicks,      \* closePopups: clicks that were carried out in this call
    popEscapes,     \* closePopups: Escape presses carried out in this call
    popAlive,       \* closePopups: the page has not been closed under the call
    scI,            \* scrollPage: let i
    scSteps,        \* scrollPage: iterations that have called scrollBy
    scPos,          \* scrollPage: scrollBy calls that took effect
    scHeight,       \* scrollPage: screens to scroll before the bottom check holds
    scSawBottom,    \* scrollPage: a bottom check has returned true
    scPc            \* scrollPage: position ("idle", "loop", "done")

ctrlVars == <<env, argv, pc, retryCount, success, finalData, browser, context,
              page, isAuthWall, html, authIndicators, browsers, contexts,
              pages, attempts, outcomes, curOutcome, backoff, popupCalls, file,
              saveCalls, printed, outcome, exitCode>>

extractVars == <<profileData, xpc, ldIndex, cand, ldName, ogSeen, focus,
                 preLdName>>

jsonLdVars == <<scripts, lastIndex, structuredData, ldRaised, ldPc>>

expVars == <<expItem, expText, expDuration, expTotalTime, expEntry, expRaised,
             expPc>>

scrVars == <<sArgv, sPc, sBrowser, sData, existingData, profileJson, sRead,
             sLoaded, sSaved, sError, sExit, sRuns>>

secVars == <<secDoc, secHeading, secResult, secRaised, secPc>>

cleanVars == <<ctText, ctOnce, ctTwice, ctPc>>

popVars == <<popDom, popPc, popSel, popEl, popupClosed, popClicks, popEscapes,
             popAlive>>

scrollVars == <<scI, scSteps, scPos, scHeight, scSawBottom, scPc>>

stepVars == <<popVars, scrollVars>>

fnVars == <<jsonLdVars, expVars, scrVars, secVars, cleanVars, stepVars>>

vars == <<ctrlVars, extractVars, fnVars>>

----------------------------------------------------------------------------
(* Bounds *)

MaxEnvRetries == 2      \* largest explicit MAX_RETRIES value tried
MaxBlocks == 2          \* retained JSON-LD blocks per page

(* Program constants *)

DefaultMaxRetries == 3
BackoffUnit == 2000
MinHtmlLength == 100
NumIndicators == 14

NoExit == -1
NULL == <<"NULL">>      \* null / undefined; no text equals it
Unmodified == <<"UNMODIFIED">>   \* output file as it was before the run

----------------------------------------------------------------------------
(* Texts *)

Includes(s, pat) ==
    \E i \in 1..(Len(s) - Len(pat) + 1) : SubSeq(s, i, i + Len(pat) - 1) = pat

\* /\s/: the white-space characters of the texts used here ("nbsp" is U+00A0)
IsSpace(c) == c \in {" ", "\t", "\n", "nbsp"}

RECURSIVE ReplaceAll(_, _, _)
\* String.prototype.replace(/pat/g, rep) for a literal, non-empty pat
ReplaceAll(s, pat, rep) ==
    IF Len(s) < Len(pat) THEN s
    ELSE IF SubSeq(s, 1, Len(pat)) = pat
         THEN rep \o ReplaceAll(SubSeq(s, Len(pat) + 1, Len(s)), pat, rep)
         ELSE <<Head(s)>> \o ReplaceAll(Tail(s), pat, rep)

RECURSIVE SkipSpaces(_)
SkipSpaces(s) == IF s # <<>> /\ IsSpace(Head(s)) THEN SkipSpaces(Tail(s)) ELSE s

RECURSIVE CollapseSpaces(_)
\* .replace(/\s+/g, ' ')
CollapseSpaces(s) ==
    IF s = <<>> THEN <<>>
    ELSE IF IsSpace(Head(s)) THEN <<" ">> \o CollapseSpaces(SkipSpaces(s))
         ELSE <<Head(s)>> \o CollapseSpaces(Tail(s))

RECURSIVE TrimRight(_)
TrimRight(s) ==
    IF s # <<>> /\ IsSpace(s[Len(s)]) THEN TrimRight(SubSeq(s, 1, Len(s) - 1)) ELSE s

\* String.prototype.trim()
Trim(s) == TrimRight(SkipSpaces(s))

DecDigits == <<"0","1","2","3","4","5","6","7","8","9">>
HexDigits == <<"0","1","2","3","4","5","6","7","8","9","a","b","c","d","e","f">>
HexUpper == <<"0","1","2","3","4","5","6","7","8","9","A","B","C","D","E","F">>

\* value of a digit character in the given digit table, -1 if it is none
DigitValue(c, table) ==
    IF \E i \in 1..Len(table) : table[i] = c
       THEN (CHOOSE i \in 1..Len(table) : table[i] = c) - 1
       ELSE -1

HexValue(c) ==
    IF DigitValue(c, HexDigits) >= 0 THEN DigitValue(c, HexDigits)
                                     ELSE DigitValue(c, HexUpper)

\* String.fromCharCode(n) for the codes that occur in the texts used here
\* (n is taken modulo 2^16 as fromCharCode does)
FromCharCode(n) ==
    LET m == n % 65536 IN
    CASE m = 0 -> "nul"
      [] m = 9 -> "\t"
      [] m = 10 -> "\n"
      [] m = 32 -> " "
      [] m = 34 -> "\""
      [] m = 35 -> "#"
      [] m = 38 -> "&"
      [] m = 39 -> "'"
      [] m = 59 -> ";"
      [] m = 60 -> "<"
      [] m = 62 -> ">"
      [] m = 65 -> "A"
      [] m = 160 -> "nbsp"
      [] OTHER -> "?"

RECURSIVE DigitRun(_, _, _)
\* number of leading characters of s that are digits of the given base
DigitRun(s, hex, n) ==
    IF s # <<>> /\ (IF hex THEN HexValue(Head(s)) ELSE DigitValue(Head(s), DecDigits)) >= 0
       THEN DigitRun(Tail(s), hex, n + 1)
       ELSE n

RECURSIVE ParseDigits(_, _, _)
\* parseInt of a run of digits
ParseDigits(s, hex, acc) ==
    IF s = <<>> THEN acc
    ELSE ParseDigits(Tail(s), hex,
             acc * (IF hex THEN 16 ELSE 10)
                 + (IF hex THEN HexValue(Head(s)) ELSE DigitValue(Head(s), DecDigits)))

RECURSIVE DecodeNumeric(_, _)
\* .replace(/&#\d+;/g, ...) (hex = FALSE) and .replace(/&#x[0-9a-f]+;/gi, ...)
\* (hex = TRUE): each entity becomes String.fromCharCode(parseInt(digits));
\* the prefix is stripped by /&#x|;/g, which leaves "&#X" in place, so that
\* parseInt gives NaN and fromCharCode U+0000 ("nul") for an upper-case X
DecodeNumeric(s, hex) ==
    LET pre == IF hex THEN 3 ELSE 2
        isPre == /\ Len(s) > pre
                 /\ s[1] = "&" /\ s[2] = "#"
                 /\ (hex => s[3] \in {"x", "X"})
        rest == SubSeq(s, pre + 1, Len(s))
        n == DigitRun(rest, hex, 0)
    IN  IF s = <<>> THEN <<>>
        ELSE IF isPre /\ n > 0 /\ Len(rest) > n /\ rest[n + 1] = ";"
             THEN <<FromCharCode(IF hex /\ s[3] = "X" THEN 0
                                 ELSE ParseDigits(SubSeq(rest, 1, n), hex, 0))>>
                      \o DecodeNumeric(SubSeq(rest, n + 2, Len(rest)), hex)
             ELSE <<Head(s)>> \o DecodeNumeric(Tail(s), hex)

\* cleanText, lines 813-840; null, undefined and "" give ""
cleanText(text) ==
    IF text = NULL \/ text = <<>> THEN <<>>
    ELSE LET s1 == CollapseSpaces(text)
             s2 == ReplaceAll(s1, <<"&","n","b","s","p",";">>, <<" ">>)
             s3 == ReplaceAll(s2, <<"&","a","m","p",";">>, <<"&">>)
             s4 == ReplaceAll(s3, <<"&","l","t",";">>, <<"<">>)
             s5 == ReplaceAll(s4, <<"&","g","t",";">>, <<">">>)
             s6 == ReplaceAll(s5, <<"&","q","u","o","t",";">>, <<"\"">>)
             s7 == ReplaceAll(s6, <<"&","#","3","9",";">>, <<"'">>)
             s8 == ReplaceAll(s7, <<"&","#","x","2","7",";">>, <<"'">>)
             s9 == DecodeNumeric(s8, FALSE)
             s10 == DecodeNumeric(s9, TRUE)
         IN  Trim(s10)

----------------------------------------------------------------------------
(* Configuration: CONFIG.MAX_RETRIES = parseInt(process.env.MAX_RETRIES, 10) || 3 *)

EnvValues ==
    { [set |-> FALSE, numeric |-> FALSE, val |-> 0],      \* variable unset
      [set |-> TRUE,  numeric |-> FALSE, val |-> 0] }     \* e.g. "abc"
    \cup { [set |-> TRUE, numeric |-> TRUE, val |-> n] : n \in (-1)..MaxEnvRetries }

\* parseInt(x, 10): NaN for undefined and for text without leading digits
ParseInt(e) ==
    IF e.set /\ e.numeric THEN [nan |-> FALSE, val |-> e.val]
                          ELSE [nan |-> TRUE, val |-> 0]

\* a || b on numbers: NaN and 0 are falsy
OrDefault(p, d) == IF p.nan \/ p.val = 0 THEN d ELSE p.val

MAX_RETRIES == OrDefault(ParseInt(env), DefaultMaxRetries)

----------------------------------------------------------------------------
(* Command line argument and isValidLinkedInUrl *)

\* given: argv[2] is defined; empty: it is ""; parses: new URL(url) does not
\* throw; hostname, pathname: the components of the parsed URL
Urls ==
    { [given |-> FALSE, empty |-> FALSE, parses |-> FALSE, hostname |-> <<>>, pathname |-> <<>>],
      [given |-> TRUE,  empty |-> TRUE,  parses |-> FALSE, hostname |-> <<>>, pathname |-> <<>>],
      \* "not a url"
      [given |-> TRUE,  empty |-> FALSE, parses |-> FALSE, hostname |-> <<>>, pathname |-> <<>>],
      \* https://www.linkedin.com/in/username/
      [given |-> TRUE,  empty |-> FALSE, parses |-> TRUE,
       hostname |-> <<"w","w","w",".","l","i","n","k","e","d","i","n",".","c","o","m">>,
       pathname |-> <<"/","i","n","/","u","s","e","r","n","a","m","e","/">>],
      \* https://www.linkedin.com/pub/jane/
      [given |-> TRUE,  empty |-> FALSE, parses |-> TRUE,
       hostname |-> <<"w","w","w",".","l","i","n","k","e","d","i","n",".","c","o","m">>,
       pathname |-> <<"/","p","u","b","/","j","a","n","e","/">>],
      \* https://www.linkedin.com/company/acme/
      [given |-> TRUE,  empty |-> FALSE, parses |-> TRUE,
       hostname |-> <<"w","w","w",".","l","i","n","k","e","d","i","n",".","c","o","m">>,
       pathname |-> <<"/","c","o","m","p","a","n","y","/","a","c","m","e","/">>],
      \* https://example.com/in/username/
      [given |-> TRUE,  empty |-> FALSE, parses |-> TRUE,
       hostname |-> <<"e","x","a","m","p","l","e",".","c","o","m">>,
       pathname |-> <<"/","i","n","/","u","s","e","r","n","a","m","e","/">>] }

isValidLinkedInUrl(url) ==
    IF ~url.parses THEN FALSE
    ELSE /\ Includes(url.hostname, <<"l","i","n","k","e","d","i","n",".","c","o","m">>)
         /\ \/ Includes(url.pathname, <<"/","i","n","/">>)
            \/ Includes(url.pathname, <<"/","p","u","b","/">>)

\* !profileUrl: undefined and "" are falsy
Falsy(url) == ~url.given \/ url.empty

MainRejects_noValidation(url) == Falsy(url)

\* the two pre-flight checks of main
MainRejects(url) == Falsy(url) \/ ~isValidLinkedInUrl(url)

----------------------------------------------------------------------------
(* detectAuthWall: authIndicators.some(indicator => indicator)              *)
(* indicators 1-3: page.url() patterns; 4-8: DOM selectors; 9-11: text      *)
(* locators; 12-14: page.title() keywords                                   *)

Indicators == [1..NumIndicators -> BOOLEAN]

AllFalse == [i \in 1..NumIndicators |-> FALSE]

\* page states tried by the controller: no signal, each single signal, all
IndicatorSamples ==
    {AllFalse, [i \in 1..NumIndicators |-> TRUE]}
    \cup { [i \in 1..NumIndicators |-> i = k] : k \in 1..NumIndicators }

detectAuthWall_every(ind) == \A i \in DOMAIN ind : ind[i]

detectAuthWall(ind) == \E i \in DOMAIN ind : ind[i]

----------------------------------------------------------------------------
(* scrapeLinkedInProfile: helpers on the resource tables *)

Invoke(tab, id) == [tab EXCEPT ![id].closeCalls = @ + 1]

Use(tab, id, a) == [tab EXCEPT ![id].usedIn = @ \cup {a}]

LoopGuard_inclusive(rc, max, succ) == rc <= max /\ ~succ

LoopGuard_oneShort(rc, max, succ) == rc + 1 < max /\ ~succ

\* while (retryCount < CONFIG.MAX_RETRIES && !success)
LoopGuard(rc, max, succ) == rc < max /\ ~succ

BackoffBefore_constant(rc) == IF rc > 0 THEN BackoffUnit ELSE 0

\* wait before a retry: 2000 * retryCount, none before the first attempt
BackoffBefore(rc) == IF rc > 0 THEN BackoffUnit * rc ELSE 0

ContentTooShort_emptyOnly(len) == len = 0

\* !html || html.length < 100
ContentTooShort(len) == len = 0 \/ len < MinHtmlLength

TakesAuthWallBranch_never(w) == FALSE

\* line 904: if (isAuthWall) { ...; continue; }
TakesAuthWallBranch(w) == w

AuthWallClosesBrowser_skip == FALSE

\* the auth-wall branch calls browser.close() before retrying
AuthWallClosesBrowser == TRUE

CatchClosesBrowser_never(b) == FALSE

\* catch block: if (browser) await browser.close().catch(() => {})
CatchClosesBrowser(b) == b # 0

SuccessAfterSave_forgotten == FALSE

\* success = true after saveToJson
SuccessAfterSave == TRUE

HtmlLengths == {0, 99, 100, 154230}

ProfileSamples == {<<"P","1">>, <<"P","2">>}

----------------------------------------------------------------------------
(* main and scrapeLinkedInProfile *)

\* readJson has not been called (the file did not exist, or not yet)
NotRead == [unread |-> TRUE]

\* the functions and the script modelled on their own are not running,
\* except the one a specification is about (own)
FnIdle(own) ==
    /\ IF own = "extractJsonLd" THEN TRUE
       ELSE /\ scripts = <<>>
            /\ lastIndex = 0
            /\ structuredData = <<>>
            /\ ldRaised = FALSE
            /\ ldPc = "idle"
    /\ IF own = "parseOneLineExperience" THEN TRUE
       ELSE /\ expItem = NULL
            /\ expText = NULL
            /\ expDuration = NULL
            /\ expTotalTime = NULL
            /\ expEntry = NULL
            /\ expRaised = FALSE
            /\ expPc = "idle"
    /\ IF own = "scrapper.js" THEN TRUE
       ELSE /\ sArgv = NULL
            /\ sPc = "idle"
            /\ sBrowser = "none"
            /\ sData = NULL
            /\ existingData = NULL
            /\ profileJson = NULL
            /\ sRead = NotRead
            /\ sLoaded = NULL
            /\ sSaved = FALSE
            /\ sError = "none"
            /\ sExit = NoExit
            /\ sRuns = 0
    /\ IF own = "getSectionByHeading" THEN TRUE
       ELSE /\ secDoc = <<>>
            /\ secHeading = NULL
            /\ secResult = NULL
            /\ secRaised = FALSE
            /\ secPc = "idle"
    /\ IF own = "cleanText" THEN TRUE
       ELSE /\ ctText = NULL
            /\ ctOnce = NULL
            /\ ctTwice = NULL
            /\ ctPc = "idle"
    /\ IF own = "closePopups" THEN TRUE
       ELSE /\ popDom = NULL
            /\ popPc = "idle"
            /\ popSel = 0
            /\ popEl = 0
            /\ popupClosed = FALSE
            /\ popClicks = 0
            /\ popEscapes = 0
            /\ popAlive = TRUE
    /\ IF own = "scrollPage" THEN TRUE
       ELSE /\ scI = 0
            /\ scSteps = 0
            /\ scPos = 0
            /\ scHeight = 0
            /\ scSawBottom = FALSE
            /\ scPc = "idle"

ExtractIdle ==
    /\ profileData = NULL
    /\ xpc = "idle"
    /\ ldIndex = 0
    /\ cand = NULL
    /\ ldName = NULL
    /\ ogSeen = NULL
    /\ focus = "none"
    /\ preLdName = NULL

Init ==
    /\ env \in EnvValues
    /\ argv \in Urls
    /\ pc = "main"
    /\ retryCount = 0
    /\ success = FALSE
    /\ finalData = NULL
    /\ browser = 0
    /\ context = 0
    /\ page = 0
    /\ isAuthWall = FALSE
    /\ html = 0
    /\ authIndicators = AllFalse
    /\ browsers = <<>>
    /\ contexts = <<>>
    /\ pages = <<>>
    /\ attempts = 0
    /\ outcomes = <<>>
    /\ curOutcome = "None"
    /\ backoff = 0
    /\ popupCalls = 0
    /\ file = Unmodified
    /\ saveCalls = 0
    /\ printed = NULL
    /\ outcome = "Running"
    /\ exitCode = NoExit
    /\ ExtractIdle
    /\ FnIdle("none")

\* main, lines 1009-1029: usage / validation failure exits with status 1
MainReject ==
    /\ pc = "main"
    /\ MainRejects(argv)
    /\ pc' = "exited"
    /\ exitCode' = 1
    /\ UNCHANGED <<env, argv, retryCount, success, finalData, browser, context,
                   page, isAuthWall, html, authIndicators, browsers, contexts, pages,
                   attempts, outcomes, curOutcome, backoff, popupCalls, file,
                   saveCalls, printed, outcome>>
    /\ UNCHANGED <<extractVars, fnVars>>

\* main, line 1032: call scrapeLinkedInProfile, which initialises its locals
MainScrape ==
    /\ pc = "main"
    /\ ~MainRejects(argv)
    /\ pc' = "loop"
    /\ browser' = 0
    /\ retryCount' = 0
    /\ success' = FALSE
    /\ finalData' = NULL
    /\ UNCHANGED <<env, argv, context, page, isAuthWall, html, authIndicators,
                   browsers, contexts, pages, attempts, outcomes, curOutcome,
                   backoff, popupCalls, file, saveCalls, printed, outcome,
                   exitCode>>
    /\ UNCHANGED <<extractVars, fnVars>>

\* line 874-879: loop test; a new attempt starts after its backoff wait
LoopEnter ==
    /\ pc = "loop"
    /\ LoopGuard(retryCount, MAX_RETRIES, success)
    /\ attempts' = attempts + 1
    /\ backoff' = BackoffBefore(retryCount)
    /\ curOutcome' = "None"
    /\ popupCalls' = 0
    /\ context' = 0
    /\ page' = 0
    /\ pc' = "startBrowser"
    /\ UNCHANGED <<env, argv, retryCount, success, finalData, browser,
                   isAuthWall, html, authIndicators, browsers, contexts, pages,
                   outcomes, file, saveCalls, printed, outcome, exitCode>>
    /\ UNCHANGED <<extractVars, fnVars>>

\* line 874: the loop ends
LoopExit ==
    /\ pc = "loop"
    /\ ~LoopGuard(retryCount, MAX_RETRIES, success)
    /\ pc' = "cleanup"
    /\ UNCHANGED <<env, argv, retryCount, success, finalData, browser, context,
                   page, isAuthWall, html, authIndicators, browsers, contexts, pages,
                   attempts, outcomes, curOutcome, backoff, popupCalls, file,
                   saveCalls, printed, outcome, exitCode>>
    /\ UNCHANGED <<extractVars, fnVars>>

\* line 883: browser = await startBrowser()
StartBrowser ==
    /\ pc = "startBrowser"
    /\ \/ /\ browsers' = Append(browsers,
                 [attempt |-> attempts, closeCalls |-> 0, usedIn |-> {attempts}])
          /\ browser' = Len(browsers) + 1
          /\ pc' = "createContext"
       \/ /\ pc' = "catch"                       \* chromium.launch rejects
          /\ UNCHANGED <<browser, browsers>>
    /\ UNCHANGED <<env, argv, retryCount, success, finalData, context, page,
                   isAuthWall, html, authIndicators, contexts, pages, attempts,
                   outcomes, curOutcome, backoff, popupCalls, file, saveCalls,
                   printed, outcome, exitCode>>
    /\ UNCHANGED <<extractVars, fnVars>>

\* line 886: const context = await createContext(browser)
CreateContext ==
    /\ pc = "createContext"
    /\ browsers' = Use(browsers, browser, attempts)
    /\ \/ /\ contexts' = Append(contexts,
                 [browser |-> browser, attempt |-> attempts, usedIn |-> {attempts}])
          /\ context' = Len(contexts) + 1
          /\ pc' = "newPage"
       \/ /\ pc' = "catch"                       \* newContext / addInitScript rejects
          /\ UNCHANGED <<context, contexts>>
    /\ UNCHANGED <<env, argv, retryCount, success, finalData, browser, page,
                   isAuthWall, html, authIndicators, pages, attempts, outcomes,
                   curOutcome, backoff, popupCalls, file, saveCalls, printed,
                   outcome, exitCode>>
    /\ UNCHANGED <<extractVars, fnVars>>

\* line 889: const page = await context.newPage()
NewPage ==
    /\ pc = "newPage"
    /\ contexts' = Use(contexts, context, attempts)
    /\ \/ /\ pages' = Append(pages,
                 [context |-> context, attempt |-> attempts, usedIn |-> {attempts}])
          /\ page' = Len(pages) + 1
          /\ pc' = "navigate"
       \/ /\ pc' = "catch"
          /\ UNCHANGED <<page, pages>>
    /\ UNCHANGED <<env, argv, retryCount, success, finalData, browser, context,
                   isAuthWall, html, authIndicators, browsers, attempts, outcomes,
                   curOutcome, backoff, popupCalls, file, saveCalls, printed,
                   outcome, exitCode>>
    /\ UNCHANGED <<extractVars, fnVars>>

\* lines 892-896 with navigateToProfile (133-161): goto rejects, times out or
\* gives no response => false => throw; otherwise the page is loaded and
\* shows some combination of auth-wall signals
Navigate ==
    /\ pc = "navigate"
    /\ pages' = Use(pages, page, attempts)
    /\ \/ \E ind \in IndicatorSamples :
            /\ authIndicators' = ind
            /\ pc' = "closePopups1"
            /\ UNCHANGED curOutcome
       \/ /\ curOutcome' = "NavigationFailed"
          /\ pc' = "catch"
          /\ UNCHANGED authIndicators
    /\ UNCHANGED <<env, argv, retryCount, success, finalData, browser, context,
                   page, isAuthWall, html, browsers, contexts, attempts, outcomes,
                   backoff, popupCalls, file, saveCalls, printed, outcome,
                   exitCode>>
    /\ UNCHANGED <<extractVars, fnVars>>

\* lines 899, 913, 919: await closePopups(page); closePopups catches every
\* error of its strategies and always returns
ClosePopups(at, next) ==
    /\ pc = at
    /\ pages' = Use(pages, page, attempts)
    /\ popupCalls' = popupCalls + 1
    /\ pc' = next
    /\ UNCHANGED <<env, argv, retryCount, success, finalData, browser, context,
                   page, isAuthWall, html, authIndicators, browsers, contexts,
                   attempts, outcomes, curOutcome, backoff, file, saveCalls,
                   printed, outcome, exitCode>>
    /\ UNCHANGED <<extractVars, fnVars>>

ClosePopups1 == ClosePopups("closePopups1", "detectAuthWall")

ClosePopups2 == ClosePopups("closePopups2", "scrollPage")

ClosePopups3 == ClosePopups("closePopups3", "content")

\* line 902: const isAuthWall = await detectAuthWall(page)
DetectAuthWall ==
    /\ pc = "detectAuthWall"
    /\ pages' = Use(pages, page, attempts)
    /\ \/ /\ isAuthWall' = detectAuthWall(authIndicators)
          /\ IF TakesAuthWallBranch(isAuthWall')
                THEN pc' = "authWall" /\ curOutcome' = "AuthWallDetected"
                ELSE pc' = "closePopups2" /\ UNCHANGED curOutcome
       \/ /\ pc' = "catch"                       \* a locator or title() rejects
          /\ UNCHANGED <<isAuthWall, curOutcome>>
    /\ UNCHANGED <<env, argv, retryCount, success, finalData, browser, context,
                   page, html, authIndicators, browsers, contexts, attempts,
                   outcomes, backoff, popupCalls, file, saveCalls, printed,
                   outcome, exitCode>>
    /\ UNCHANGED <<extractVars, fnVars>>

\* lines 904-910: close the browser, count the retry, continue
AuthWall ==
    /\ pc = "authWall"
    /\ browsers' = IF AuthWallClosesBrowser THEN Invoke(browsers, browser)
                                            ELSE browsers
    /\ \/ /\ browser' = 0
          /\ retryCount' = retryCount + 1
          /\ outcomes' = Append(outcomes, curOutcome)
          /\ pc' = "loop"
       \/ /\ AuthWallClosesBrowser               \* browser.close() rejects
          /\ pc' = "catch"
          /\ UNCHANGED <<browser, retryCount, outcomes>>
    /\ UNCHANGED <<env, argv, success, finalData, context, page, isAuthWall, html,
                   authIndicators, contexts, pages, attempts, curOutcome,
                   backoff, popupCalls, file, saveCalls, printed, outcome,
                   exitCode>>
    /\ UNCHANGED <<extractVars, fnVars>>

ScrollPage_thenContent ==
    /\ pc = "scrollPage"
    /\ pages' = Use(pages, page, attempts)
    /\ pc' = "content"
    /\ UNCHANGED <<env, argv, retryCount, success, finalData, browser, context,
                   page, isAuthWall, html, authIndicators, browsers, contexts,
                   attempts, outcomes, curOutcome, backoff, popupCalls, file,
                   saveCalls, printed, outcome, exitCode>>
    /\ UNCHANGED <<extractVars, fnVars>>

\* line 916: await scrollPage(page, 5); every step failure is caught inside
ScrollPage ==
    /\ pc = "scrollPage"
    /\ pages' = Use(pages, page, attempts)
    /\ pc' = "closePopups3"
    /\ UNCHANGED <<env, argv, retryCount, success, finalData, browser, context,
                   page, isAuthWall, html, authIndicators, browsers, contexts,
                   attempts, outcomes, curOutcome, backoff, popupCalls, file,
                   saveCalls, printed, outcome, exitCode>>
    /\ UNCHANGED <<extractVars, fnVars>>

\* lines 923-929: const html = await page.content(); too short => throw
Content ==
    /\ pc = "content"
    /\ pages' = Use(pages, page, attempts)
    /\ \/ \E len \in HtmlLengths :
            /\ html' = len
            /\ IF ContentTooShort(len)
                  THEN pc' = "catch" /\ curOutcome' = "NavigationFailed"
                  ELSE pc' = "extract" /\ UNCHANGED curOutcome
       \/ /\ pc' = "catch"                       \* page.content() rejects
          /\ UNCHANGED <<html, curOutcome>>
    /\ UNCHANGED <<env, argv, retryCount, success, finalData, browser, context,
                   page, isAuthWall, authIndicators, browsers, contexts,
                   attempts, outcomes, backoff, popupCalls, file, saveCalls,
                   printed, outcome, exitCode>>
    /\ UNCHANGED <<extractVars, fnVars>>

\* lines 932-946: extractPublicProfileData, then finalData is assembled
Extract ==
    /\ pc = "extract"
    /\ pages' = Use(pages, page, attempts)
    /\ \/ \E data \in ProfileSamples :
            /\ finalData' = [profile_url |-> argv,
                             scraped_at |-> attempts,
                             public_data |-> data,
                             html_length |-> html,
                             retry_count |-> retryCount]
            /\ pc' = "saveToJson"
       \/ /\ pc' = "catch"                       \* extraction throws
          /\ UNCHANGED finalData
    /\ UNCHANGED <<env, argv, retryCount, success, browser, context, page,
                   isAuthWall, html, authIndicators, browsers, contexts,
                   attempts, outcomes, curOutcome, backoff, popupCalls, file,
                   saveCalls, printed, outcome, exitCode>>
    /\ UNCHANGED <<extractVars, fnVars>>

\* lines 949-958 with saveToJson (846-854): the write error is caught and
\* logged inside saveToJson; success = true and the record is printed
SaveToJson ==
    /\ pc = "saveToJson"
    /\ saveCalls' = saveCalls + 1
    /\ \/ file' = finalData
       \/ UNCHANGED file                         \* fs.writeFileSync throws
    /\ success' = SuccessAfterSave
    /\ printed' = finalData
    /\ curOutcome' = "Success"
    /\ outcomes' = Append(outcomes, "Success")
    /\ pc' = "loop"
    /\ UNCHANGED <<env, argv, retryCount, finalData, browser, context, page,
                   isAuthWall, html, authIndicators, browsers, contexts, pages,
                   attempts, backoff, popupCalls, outcome, exitCode>>
    /\ UNCHANGED <<extractVars, fnVars>>

Catch_countsTwice ==
    /\ pc = "catch"
    /\ IF CatchClosesBrowser(browser)
          THEN /\ browsers' = Invoke(browsers, browser)
               /\ browser' = 0
          ELSE UNCHANGED <<browser, browsers>>
    /\ retryCount' = retryCount + 2
    /\ outcomes' = Append(outcomes, IF curOutcome = "None" THEN "Error" ELSE curOutcome)
    /\ pc' = "loop"
    /\ UNCHANGED <<env, argv, success, finalData, context, page, isAuthWall,
                   html, authIndicators, contexts, pages, attempts, curOutcome,
                   backoff, popupCalls, file, saveCalls, printed, outcome,
                   exitCode>>
    /\ UNCHANGED <<extractVars, fnVars>>

\* lines 960-970: catch block of the attempt
Catch ==
    /\ pc = "catch"
    /\ IF CatchClosesBrowser(browser)
          THEN /\ browsers' = Invoke(browsers, browser)   \* rejection swallowed
               /\ browser' = 0
          ELSE UNCHANGED <<browser, browsers>>
    /\ retryCount' = retryCount + 1
    /\ outcomes' = Append(outcomes, IF curOutcome = "None" THEN "Error" ELSE curOutcome)
    /\ pc' = "loop"
    /\ UNCHANGED <<env, argv, success, finalData, context, page, isAuthWall,
                   html, authIndicators, contexts, pages, attempts, curOutcome,
                   backoff, popupCalls, file, saveCalls, printed, outcome,
                   exitCode>>
    /\ UNCHANGED <<extractVars, fnVars>>

\* lines 973-977: if (browser) await browser.close()
Cleanup ==
    /\ pc = "cleanup"
    /\ IF browser # 0
          THEN /\ browsers' = Invoke(browsers, browser)
               /\ \/ pc' = "final"
                  \/ pc' = "mainCatch"           \* browser.close() rejects
          ELSE /\ pc' = "final"
               /\ UNCHANGED browsers
    /\ UNCHANGED <<env, argv, retryCount, success, finalData, browser, context,
                   page, isAuthWall, html, authIndicators, contexts, pages,
                   attempts, outcomes, curOutcome, backoff, popupCalls, file,
                   saveCalls, printed, outcome, exitCode>>
    /\ UNCHANGED <<extractVars, fnVars>>

\* lines 979-988: final status; return finalData or throw
Final ==
    /\ pc = "final"
    /\ IF success
          THEN outcome' = "Success" /\ pc' = "mainReturn"
          ELSE outcome' = "Failed" /\ pc' = "mainCatch"
    /\ UNCHANGED <<env, argv, retryCount, success, finalData, browser, context,
                   page, isAuthWall, html, authIndicators, browsers, contexts,
                   pages, attempts, outcomes, curOutcome, backoff, popupCalls,
                   file, saveCalls, printed, exitCode>>
    /\ UNCHANGED <<extractVars, fnVars>>

\* main, line 1033: process.exit(0)
MainExit0 ==
    /\ pc = "mainReturn"
    /\ exitCode' = 0
    /\ pc' = "exited"
    /\ UNCHANGED <<env, argv, retryCount, success, finalData, browser, context,
                   page, isAuthWall, html, authIndicators, browsers, contexts,
                   pages, attempts, outcomes, curOutcome, backoff, popupCalls,
                   file, saveCalls, printed, outcome>>
    /\ UNCHANGED <<extractVars, fnVars>>

\* main, lines 1034-1037: catch (error) { ...; process.exit(1) }
MainCatch ==
    /\ pc = "mainCatch"
    /\ exitCode' = 1
    /\ pc' = "exited"
    /\ UNCHANGED <<env, argv, retryCount, success, finalData, browser, context,
                   page, isAuthWall, html, authIndicators, browsers, contexts,
                   pages, attempts, outcomes, curOutcome, backoff, popupCalls,
                   file, saveCalls, printed, outcome>>
    /\ UNCHANGED <<extractVars, fnVars>>

Next ==
    \/ MainReject
    \/ MainScrape
    \/ LoopEnter
    \/ LoopExit
    \/ StartBrowser
    \/ CreateContext
    \/ NewPage
    \/ Navigate
    \/ ClosePopups1
    \/ DetectAuthWall
    \/ AuthWall
    \/ ClosePopups2
    \/ ScrollPage
    \/ ClosePopups3
    \/ Content
    \/ Extract
    \/ SaveToJson
    \/ Catch
    \/ Cleanup
    \/ Final
    \/ MainExit0
    \/ MainCatch

Spec == Init /\ [][Next]_vars

\* every awaited operation eventually returns or throws, and the
\* synchronous code between two awaits runs to the next one
FairSpec == Spec /\ WF_vars(Next)

----------------------------------------------------------------------------
(* detectAuthWall on every combination of its 14 signals: an attempt that   *)
(* has loaded a page and is about to run the auth check                     *)

AuthInit ==
    /\ env \in EnvValues
    /\ MAX_RETRIES >= 1
    /\ argv \in {u \in Urls : ~MainRejects(u)}
    /\ pc = "detectAuthWall"
    /\ retryCount = 0
    /\ success = FALSE
    /\ finalData = NULL
    /\ browser = 1
    /\ context = 1
    /\ page = 1
    /\ isAuthWall = FALSE
    /\ html = 0
    /\ authIndicators \in Indicators
    /\ browsers = <<[attempt |-> 1, closeCalls |-> 0, usedIn |-> {1}]>>
    /\ contexts = <<[browser |-> 1, attempt |-> 1, usedIn |-> {1}]>>
    /\ pages = <<[context |-> 1, attempt |-> 1, usedIn |-> {1}]>>
    /\ attempts = 1
    /\ outcomes = <<>>
    /\ curOutcome = "None"
    /\ backoff = 0
    /\ popupCalls = 1
    /\ file = Unmodified
    /\ saveCalls = 0
    /\ printed = NULL
    /\ outcome = "Running"
    /\ exitCode = NoExit
    /\ ExtractIdle
    /\ FnIdle("none")

AuthNext == DetectAuthWall

AuthSpec == AuthInit /\ [][AuthNext]_vars

----------------------------------------------------------------------------
(* extractPublicProfileData, lines 650-806, in the order of its statements. *)
(* Each step reads its sources from the page (chosen when the step runs)    *)
(* and records, per field, the first non-empty candidate in source order.   *)
(* The statements of one field read and write that field only, so a page    *)
(* carries the sources of one field (focus) and none for the others.        *)

Fields == {"name", "headline", "location", "about", "profile_image"}

Truthy(t) == t # NULL /\ t # <<>>

RECURSIVE FirstNonEmpty(_)
\* first non-empty value of a sequence of candidate values, "" if none
FirstNonEmpty(cs) ==
    IF cs = <<>> THEN <<>>
    ELSE IF Truthy(Head(cs)) THEN Head(cs) ELSE FirstNonEmpty(Tail(cs))

\* candidates seen so far, extended by the candidates of the next sources
Seen(old, cs) == IF old # <<>> THEN old ELSE FirstNonEmpty(cs)

RECURSIVE FirstPart(_)
\* meta.title.split(/[\|\-–—]/)[0]
FirstPart(t) ==
    IF t = <<>> \/ Head(t) \in {"|", "-"} THEN <<>>
    ELSE <<Head(t)>> \o FirstPart(Tail(t))

\* lines 670-681: name from og:title, else from the first part of the title
NameFromMeta(ogTitle, title) ==
    IF Truthy(ogTitle) THEN ogTitle
    ELSE IF Truthy(title) THEN cleanText(FirstPart(title))
    ELSE <<>>

\* lines 683-689 (and 692-695 with second = ""): first truthy of the two
FirstOf(first, second) ==
    IF Truthy(first) THEN first
    ELSE IF Truthy(second) THEN second
    ELSE <<>>

\* lines 700-704: if (h1Text && !profileData.name)
NameFromH1(cur, h1Text) ==
    IF Truthy(h1Text) /\ ~Truthy(cur) THEN cleanText(h1Text) ELSE cur

RECURSIVE SelectFold(_, _)
\* lines 733-747 for one field: the first selector with a truthy text while
\* the field is empty sets the field to cleanText(text) and ends the loop; a
\* selector that throws or has no text is skipped
SelectFold(cur, texts) ==
    IF texts = <<>> THEN cur
    ELSE IF Truthy(Head(texts)) /\ ~Truthy(cur) THEN cleanText(Head(texts))
    ELSE SelectFold(cur, Tail(texts))

LdFill_overwrite(cur, v) == IF Truthy(v) THEN v ELSE cur

\* lines 757-772: if (data.x && !profileData.y) profileData.y = data.x
LdFill(cur, v) == IF Truthy(v) /\ ~Truthy(cur) THEN v ELSE cur

\* lines 777-782: if (part && profileData.location) location += ", " + part
LdAppend(cur, part) ==
    IF Truthy(part) /\ Truthy(cur) THEN cur \o <<",", " ">> \o part ELSE cur

\* lines 773-782 for one block
LdLocation(cur, address) ==
    LdAppend(LdAppend(LdFill(cur, address.addressLocality),
                      address.addressRegion),
             address.addressCountry)

TitleTexts == {NULL, <<"T"," ","-"," ","X">>, <<"-","T">>}
DescTexts == {NULL, <<"D">>}
OgTexts == {NULL, <<" ">>, <<"O">>}
H1Texts == {NULL, <<" ">>, <<"H"," ">>}
DomTexts == {NULL, <<" ">>, <<"S">>, <<" ","R">>}
LdTexts == {NULL, <<"J">>, <<"K">>}
LdParts == {NULL, <<"P">>}

\* a JSON value that is truthy and not a string: a number such as 42, an
\* array, an object without a url member
NonString == <<"NONSTRING">>

\* what JSON.parse can give for a member of a block
LdValues == LdTexts \cup {NonString}

\* lines 767, 793: v.substring(...) is a call only when v is a string; on
\* any other truthy value it is a TypeError
HasSubstring(v) == v # NonString

\* line 770: typeof data.image === 'string' ? data.image : data.image.url
ImageUrl(image) == IF HasSubstring(image) THEN image ELSE NULL

\* lines 769-772
LdImage(cur, image) ==
    IF Truthy(image) /\ ~Truthy(cur) THEN ImageUrl(image) ELSE cur

\* lines 765-767: the about just taken from the block is logged by its
\* first 80 characters
AboutLogThrows(cur, description) ==
    Truthy(description) /\ ~Truthy(cur) /\ ~HasSubstring(description)

\* lines 791-794: every scalar member with a truthy value is logged by its
\* first 60 characters
SummaryThrows(p) == \E k \in DOMAIN p : Truthy(p[k]) /\ ~HasSubstring(p[k])

\* the texts a source of field f can have on the page under extraction
Src(f, texts) == IF focus = f THEN texts ELSE {NULL}

NumSelectors(f) ==
    CASE f = "name" -> 4
      [] f = "headline" -> 4
      [] f = "location" -> 3
      [] f = "about" -> 3

LdBlocks ==
    [name : Src("name", LdValues), jobTitle : Src("headline", LdValues),
     description : Src("about", LdValues), image : Src("profile_image", LdValues),
     address : [addressLocality : Src("location", LdValues),
                addressRegion : Src("location", LdParts),
                addressCountry : Src("location", LdParts)]]

EmptyProfile ==
    [name |-> <<>>, headline |-> <<>>, location |-> <<>>, about |-> <<>>,
     profile_image |-> <<>>, title |-> <<>>, meta_description |-> <<>>]

NoCandidates == [f \in Fields |-> <<>>]

\* an attempt that passed the auth check (all signals false) and retrieved
\* the html calls extractPublicProfileData
ExtractInit ==
    /\ env \in EnvValues
    /\ MAX_RETRIES >= 1
    /\ argv \in {u \in Urls : ~MainRejects(u)}
    /\ pc = "extract"
    /\ retryCount = 0
    /\ success = FALSE
    /\ finalData = NULL
    /\ browser = 1
    /\ context = 1
    /\ page = 1
    /\ isAuthWall = FALSE
    /\ html = 154230
    /\ authIndicators = AllFalse
    /\ browsers = <<[attempt |-> 1, closeCalls |-> 0, usedIn |-> {1}]>>
    /\ contexts = <<[browser |-> 1, attempt |-> 1, usedIn |-> {1}]>>
    /\ pages = <<[context |-> 1, attempt |-> 1, usedIn |-> {1}]>>
    /\ attempts = 1
    /\ outcomes = <<>>
    /\ curOutcome = "None"
    /\ backoff = 0
    /\ popupCalls = 3
    /\ file = Unmodified
    /\ saveCalls = 0
    /\ printed = NULL
    /\ outcome = "Running"
    /\ exitCode = NoExit
    /\ profileData = EmptyProfile
    /\ xpc = "meta"
    /\ ldIndex = 0
    /\ cand = NoCandidates
    /\ ldName = NULL
    /\ ogSeen = NULL
    /\ focus \in Fields
    /\ preLdName = NULL
    /\ FnIdle("none")

\* lines 666-695: extractMetaTags (each value cleaned by cleanText, "" when
\* the tag is missing) and the fields taken from it
XMeta ==
    /\ xpc = "meta"
    /\ \E rawTitle \in Src("name", TitleTexts), rawDesc \in Src("headline", DescTexts),
          rawOgTitle \in Src("name", OgTexts), rawOgDesc \in Src("headline", OgTexts),
          rawOgImage \in Src("profile_image", OgTexts) :
        LET meta == [title |-> cleanText(rawTitle),
                     description |-> cleanText(rawDesc),
                     ogTitle |-> cleanText(rawOgTitle),
                     ogDescription |-> cleanText(rawOgDesc),
                     ogImage |-> cleanText(rawOgImage)]
        IN  /\ profileData' =
                  [profileData EXCEPT
                      !.title = meta.title,
                      !.meta_description = meta.description,
                      !.name = NameFromMeta(meta.ogTitle, meta.title),
                      !.headline = FirstOf(meta.ogDescription, meta.description),
                      !.profile_image = FirstOf(meta.ogImage, <<>>)]
            /\ cand' = [cand EXCEPT
                      !.name = Seen(@, <<meta.ogTitle, cleanText(FirstPart(meta.title))>>),
                      !.headline = Seen(@, <<meta.ogDescription, meta.description>>),
                      !.profile_image = Seen(@, <<meta.ogImage>>)]
            /\ ogSeen' = meta.ogTitle
    /\ xpc' = "h1"
    /\ UNCHANGED <<ldIndex, ldName, focus, preLdName>>
    /\ UNCHANGED <<ctrlVars, fnVars>>

\* lines 700-704; a failing textContent is replaced by ''
XH1 ==
    /\ xpc = "h1"
    /\ \E h1Text \in Src("name", H1Texts) :
        /\ profileData' = [profileData EXCEPT !.name = NameFromH1(@, h1Text)]
        /\ cand' = [cand EXCEPT !.name = Seen(@, <<cleanText(h1Text)>>)]
    /\ xpc' = "sel_name"
    /\ UNCHANGED <<ldIndex, ldName, ogSeen, focus, preLdName>>
    /\ UNCHANGED <<ctrlVars, fnVars>>

\* lines 733-747 for one field of the selectors table
XSelect(f, at, next) ==
    /\ xpc = at
    /\ \E texts \in [1..NumSelectors(f) -> Src(f, DomTexts)] :
        /\ profileData' = [profileData EXCEPT ![f] = SelectFold(@, texts)]
        /\ cand' = [cand EXCEPT
                      ![f] = Seen(@, [i \in 1..NumSelectors(f) |-> cleanText(texts[i])])]
    /\ xpc' = next
    /\ preLdName' = IF next = "jsonld" THEN profileData'.name ELSE preLdName
    /\ UNCHANGED <<ldIndex, ldName, ogSeen, focus>>
    /\ UNCHANGED <<ctrlVars, fnVars>>

XSelectName == XSelect("name", "sel_name", "sel_headline")

XSelectHeadline == XSelect("headline", "sel_headline", "sel_location")

XSelectLocation == XSelect("location", "sel_location", "sel_about")

XSelectAbout == XSelect("about", "sel_about", "jsonld")

\* lines 756-783: one iteration over the retained JSON-LD blocks; the
\* iteration ends at line 767 when the logged about has no substring
XJsonLd ==
    /\ xpc = "jsonld"
    /\ ldIndex < MaxBlocks
    /\ \E data \in LdBlocks :
        /\ IF AboutLogThrows(profileData.about, data.description)
           THEN /\ profileData' =
                      [profileData EXCEPT
                          !.name = LdFill(@, data.name),
                          !.headline = LdFill(@, data.jobTitle),
                          !.about = LdFill(@, data.description)]
                /\ cand' = [cand EXCEPT
                              !.name = Seen(@, <<data.name>>),
                              !.headline = Seen(@, <<data.jobTitle>>),
                              !.about = Seen(@, <<data.description>>)]
                /\ xpc' = "raised"
           ELSE /\ profileData' =
                      [profileData EXCEPT
                          !.name = LdFill(@, data.name),
                          !.headline = LdFill(@, data.jobTitle),
                          !.about = LdFill(@, data.description),
                          !.profile_image = LdImage(@, data.image),
                          !.location = LdLocation(@, data.address)]
                /\ cand' = [cand EXCEPT
                              !.name = Seen(@, <<data.name>>),
                              !.headline = Seen(@, <<data.jobTitle>>),
                              !.about = Seen(@, <<data.description>>),
                              !.profile_image = Seen(@, <<ImageUrl(data.image)>>),
                              !.location = Seen(@, <<data.address.addressLocality>>)]
                /\ xpc' = xpc
        /\ ldName' = IF ldName = NULL /\ Truthy(data.name) THEN data.name ELSE ldName
    /\ ldIndex' = ldIndex + 1
    /\ UNCHANGED <<ogSeen, focus, preLdName>>
    /\ UNCHANGED <<ctrlVars, fnVars>>

\* lines 785-805: no block is left; the summary is logged (a TypeError at
\* line 793 leaves the function) and the record is returned
XReturn ==
    /\ xpc = "jsonld"
    /\ xpc' = IF SummaryThrows(profileData) THEN "raised" ELSE "done"
    /\ UNCHANGED <<profileData, ldIndex, cand, ldName, ogSeen, focus,
                   preLdName>>
    /\ UNCHANGED <<ctrlVars, fnVars>>

ExtractNext ==
    \/ XMeta
    \/ XH1
    \/ XSelectName
    \/ XSelectHeadline
    \/ XSelectLocation
    \/ XSelectAbout
    \/ XJsonLd
    \/ XReturn

ExtractSpec == ExtractInit /\ [][ExtractNext]_vars

----------------------------------------------------------------------------
(* The functions below are modelled on their own inputs; the controller of *)
(* linkedinscraper.js is not running in their specifications.              *)

CtrlOff ==
    /\ env = [set |-> FALSE, numeric |-> FALSE, val |-> 0]
    /\ argv = [given |-> FALSE, empty |-> FALSE, parses |-> FALSE,
               hostname |-> <<>>, pathname |-> <<>>]
    /\ pc = "off"
    /\ retryCount = 0
    /\ success = FALSE
    /\ finalData = NULL
    /\ browser = 0
    /\ context = 0
    /\ page = 0
    /\ isAuthWall = FALSE
    /\ html = 0
    /\ authIndicators = AllFalse
    /\ browsers = <<>>
    /\ contexts = <<>>
    /\ pages = <<>>
    /\ attempts = 0
    /\ outcomes = <<>>
    /\ curOutcome = "None"
    /\ backoff = 0
    /\ popupCalls = 0
    /\ file = Unmodified
    /\ saveCalls = 0
    /\ printed = NULL
    /\ outcome = "Running"
    /\ exitCode = NoExit

----------------------------------------------------------------------------
(* extractJsonLd, linkedinscraper.js lines 459-482.  The html is the        *)
(* sequence of its script elements.  An element is described by what the    *)
(* function can observe of it: whether its opening tag has the shape the    *)
(* pattern wants (type="application/ld+json" as the first attribute) and    *)
(* what its body is to JSON.parse:                                          *)
(*   "malformed"     not JSON, JSON.parse throws a SyntaxError              *)
(*   "null"          the JSON value null, reading data['@type'] throws      *)
(*   "text"          a JSON string or number, data['@type'] is undefined    *)
(*   "Person", "ProfilePage", "Organization"   an object of that @type      *)

ScriptElements ==
    [typeFirst : BOOLEAN,
     body : {"malformed", "null", "text", "Person", "ProfilePage", "Organization"}]

\* line 463: /<script type=["']application\/ld\+json["'][^>]*>...<\/script>/gi
jsonLdRegex(el) == el.typeFirst

\* line 466: jsonLdRegex.exec(html) resumes after the last match and gives
\* the next element the pattern matches (0: null, no further match)
Exec(els, from) ==
    LET found == {j \in (from + 1)..Len(els) : jsonLdRegex(els[j])}
    IN  IF found = {} THEN 0
        ELSE CHOOSE j \in found : \A k \in found : j <= k

\* line 469: JSON.parse(jsonContent)
JsonParseThrows(body) == body = "malformed"

\* line 471: data['@type'] (a property read of null is a TypeError)
TypeReadThrows(body) == body = "null"

\* line 471: data['@type'] === 'Person' || data['@type'] === 'ProfilePage'
IsProfileType(body) == body \in {"Person", "ProfilePage"}

\* lines 467-477: the statements of one iteration are inside try, and the
\* catch clause only logs
CatchSwallows_rethrow == FALSE
CatchSwallows == TRUE

\* lines 467-477: what one iteration does with a matched element
TryBlock(body) ==
    IF JsonParseThrows(body) \/ TypeReadThrows(body)
    THEN IF CatchSwallows THEN "caught" ELSE "raised"
    ELSE IF IsProfileType(body) THEN "push" ELSE "skip"

MaxScripts == 3

JsonLdInit ==
    /\ CtrlOff
    /\ ExtractIdle
    /\ FnIdle("extractJsonLd")
    /\ scripts \in UNION {[1..n -> ScriptElements] : n \in 0..MaxScripts}
    /\ lastIndex = 0
    /\ structuredData = <<>>
    /\ ldRaised = FALSE
    /\ ldPc = "scan"

\* lines 466-478: one iteration of the while loop
JsonLdIterate ==
    /\ ldPc = "scan"
    /\ Exec(scripts, lastIndex) # 0
    /\ LET j == Exec(scripts, lastIndex)
           r == TryBlock(scripts[j].body)
       IN  /\ lastIndex' = j
           /\ structuredData' =
                  IF r = "push"
                  THEN Append(structuredData, [at |-> j, type |-> scripts[j].body])
                  ELSE structuredData
           /\ ldRaised' = (r = "raised")
           /\ ldPc' = IF r = "raised" THEN "done" ELSE "scan"
    /\ UNCHANGED <<scripts>>
    /\ UNCHANGED <<ctrlVars, extractVars, expVars, scrVars, secVars, cleanVars,
                   stepVars>>

\* lines 466 and 481: exec gives null, return structuredData
JsonLdReturn ==
    /\ ldPc = "scan"
    /\ Exec(scripts, lastIndex) = 0
    /\ lastIndex' = Len(scripts)
    /\ ldPc' = "done"
    /\ UNCHANGED <<scripts, structuredData, ldRaised>>
    /\ UNCHANGED <<ctrlVars, extractVars, expVars, scrVars, secVars, cleanVars,
                   stepVars>>

JsonLdNext == JsonLdIterate \/ JsonLdReturn

JsonLdSpec == JsonLdInit /\ [][JsonLdNext]_vars

----------------------------------------------------------------------------
(* parseOneLineExperience, unnamed/part_000 lines 51-101, with its two      *)
(* patterns matched character by character                                  *)

UpperLetters ==
    <<"A","B","C","D","E","F","G","H","I","J","K","L","M","N","O","P","Q","R","S","T","U","V","W","X","Y","Z">>
LowerLetters ==
    <<"a","b","c","d","e","f","g","h","i","j","k","l","m","n","o","p","q","r","s","t","u","v","w","x","y","z">>

\* /\d/
IsDigit(c) == DigitValue(c, DecDigits) >= 0

\* /\w/
IsWordChar(c) ==
    \/ IsDigit(c)
    \/ DigitValue(c, UpperLetters) >= 0
    \/ DigitValue(c, LowerLetters) >= 0
    \/ c = "_"

\* String.prototype.toUpperCase() on one character
toUpperCase(c) ==
    IF DigitValue(c, LowerLetters) >= 0
       THEN UpperLetters[DigitValue(c, LowerLetters) + 1] ELSE c

\* String.prototype.toLowerCase() on one character
toLowerCase(c) ==
    IF DigitValue(c, UpperLetters) >= 0
       THEN LowerLetters[DigitValue(c, UpperLetters) + 1] ELSE c

LowerText(s) == [i \in 1..Len(s) |-> toLowerCase(s[i])]

\* offsets count the characters already consumed: s[k + 1] is the next one
StartsWith(s, k, pat) ==
    k + Len(pat) <= Len(s) /\ SubSeq(s, k + 1, k + Len(pat)) = pat

\* the same under the i flag
StartsWithCI(s, k, pat) ==
    k + Len(pat) <= Len(s)
        /\ LowerText(SubSeq(s, k + 1, k + Len(pat))) = LowerText(pat)

\* \d{4}
FourDigits(s, k) == k + 4 <= Len(s) /\ \A i \in 1..4 : IsDigit(s[k + i])

\* \s
SpaceAt(s, k) == k + 1 <= Len(s) /\ IsSpace(s[k + 1])

RECURSIVE RunFrom(_, _, _)
\* length of the longest \w* ("w"), \d* ("d") or \s* ("s") at offset k
RunFrom(s, k, class) ==
    IF k + 1 <= Len(s)
          /\ (CASE class = "w" -> IsWordChar(s[k + 1])
                [] class = "d" -> IsDigit(s[k + 1])
                [] OTHER -> IsSpace(s[k + 1]))
       THEN 1 + RunFrom(s, k + 1, class) ELSE 0

Least(S) == CHOOSE x \in S : \A y \in S : x <= y
Greatest(S) == CHOOSE x \in S : \A y \in S : x >= y

Months ==
    {<<"J","a","n">>,
     <<"F","e","b">>,
     <<"M","a","r">>,
     <<"A","p","r">>,
     <<"M","a","y">>,
     <<"J","u","n">>,
     <<"J","u","l">>,
     <<"A","u","g">>,
     <<"S","e","p">>,
     <<"O","c","t">>,
     <<"N","o","v">>,
     <<"D","e","c">>}

\* the duration pattern of line 57 tried at offset p: the end offset of the
\* match, -1 if there is none.  The alternatives are taken in the order the
\* engine tries them: month and space, month alone, space alone, neither;
\* \w+ is greedy and gives characters back until \s?\d{4} matches
DurationAt(s, p) ==
    LET EndMonthYear(k) ==
            LET withSpace(m) == SpaceAt(s, k + m) /\ FourDigits(s, k + m + 1)
                ms == {m \in 1..RunFrom(s, k, "w") :
                          withSpace(m) \/ FourDigits(s, k + m)}
            IN  IF ms = {} THEN -1
                ELSE IF withSpace(Greatest(ms)) THEN k + Greatest(ms) + 5
                                                ELSE k + Greatest(ms) + 4
        \* \s-\s(Present|\w+\s?\d{4}) at offset k
        DurationTail(k) ==
            IF SpaceAt(s, k) /\ StartsWith(s, k + 1, <<"-">>) /\ SpaceAt(s, k + 2)
            THEN IF StartsWith(s, k + 3, <<"P","r","e","s","e","n","t">>)
                    THEN k + 10
                    ELSE EndMonthYear(k + 3)
            ELSE -1
        \* \d{4}\s-\s(Present|\w+\s?\d{4}) at offset k
        YearAndTail(k) == IF FourDigits(s, k) THEN DurationTail(k + 4) ELSE -1
        mon == \E m \in Months : StartsWith(s, p, m)
        o1 == IF mon /\ SpaceAt(s, p + 3) THEN YearAndTail(p + 4) ELSE -1
        o2 == IF mon THEN YearAndTail(p + 3) ELSE -1
        o3 == IF SpaceAt(s, p) THEN YearAndTail(p + 1) ELSE -1
        o4 == YearAndTail(p)
    IN  IF o1 >= 0 THEN o1 ELSE IF o2 >= 0 THEN o2 ELSE IF o3 >= 0 THEN o3 ELSE o4

\* lines 56-60: text.match(...) and durationMatch[0], null without a match
durationMatch(text) ==
    LET starts == {p \in 0..(Len(text) - 1) : DurationAt(text, p) >= 0}
    IN  IF starts = {} THEN NULL
        ELSE SubSeq(text, Least(starts) + 1, DurationAt(text, Least(starts)))

\* /\d+\s+year[s]?\s*\d*\s*month[s]?/i tried at offset p: the end offset of
\* the match, -1 if there is none; one operator per element of the pattern,
\* each given the offset its element starts at
TotalTimeAt(s, p) ==
    LET OptS(k) == IF StartsWithCI(s, k, <<"s">>) THEN k + 1 ELSE k
        Month(k) == IF StartsWithCI(s, k, <<"m","o","n","t","h">>) THEN OptS(k + 5) ELSE -1
        Spaces2(k) == Month(k + RunFrom(s, k, "s"))
        Digits2(k) == Spaces2(k + RunFrom(s, k, "d"))
        Spaces1(k) == Digits2(k + RunFrom(s, k, "s"))
        Year(k) == IF StartsWithCI(s, k, <<"y","e","a","r">>) THEN Spaces1(OptS(k + 4)) ELSE -1
        Spaces0(k) == IF RunFrom(s, k, "s") > 0 THEN Year(k + RunFrom(s, k, "s")) ELSE -1
    IN  IF RunFrom(s, p, "d") > 0 THEN Spaces0(p + RunFrom(s, p, "d")) ELSE -1

\* lines 63-64: text.match(...) and totalTimeMatch[0], null without a match
totalTimeMatch(text) ==
    LET starts == {p \in 0..(Len(text) - 1) : TotalTimeAt(text, p) >= 0}
    IN  IF starts = {} THEN NULL
        ELSE SubSeq(text, Least(starts) + 1, TotalTimeAt(text, Least(starts)))

\* x || ""
OrEmpty(x) == IF x = NULL THEN <<>> ELSE x

\* String.prototype.replace(pat, "") for a string pat: the first occurrence
ReplaceFirst(s, pat) ==
    LET occ == {i \in 1..(Len(s) - Len(pat) + 1) : SubSeq(s, i, i + Len(pat) - 1) = pat}
    IN  IF pat = <<>> \/ occ = {} THEN s
        ELSE SubSeq(s, 1, Least(occ) - 1) \o SubSeq(s, Least(occ) + Len(pat), Len(s))

RECURSIVE Split(_)
\* String.prototype.split(" ")
Split(s) ==
    LET sp == {i \in 1..Len(s) : s[i] = " "}
    IN  IF sp = {} THEN <<s>>
        ELSE <<SubSeq(s, 1, Least(sp) - 1)>> \o Split(SubSeq(s, Least(sp) + 1, Len(s)))

RECURSIVE JoinWith(_, _)
\* Array.prototype.join(sep)
JoinWith(parts, sep) ==
    IF parts = <<>> THEN <<>>
    ELSE IF Len(parts) = 1 THEN parts[1]
    ELSE parts[1] \o sep \o JoinWith(Tail(parts), sep)

\* lines 83-88: the elements the for loop stops at, as positions in parts
\* (the loop starts at the second element): reading parts[i][0].toUpperCase()
\* of an empty element is a TypeError, any other element stops the loop when
\* its first character is its own upper case
LoopStops(parts) ==
    {i \in 2..Len(parts) :
        parts[i] = <<>> \/ parts[i][1] = toUpperCase(parts[i][1])}

\* lines 67-99: what the callback returns, from text, duration and
\* total_time
RoleAndCompany(text, duration, total_time) ==
    LET parts == Split(Trim(ReplaceFirst(ReplaceFirst(text, OrEmpty(duration)),
                                         OrEmpty(total_time))))
        stops == LoopStops(parts)
        splitIndex == IF stops = {} THEN 1 ELSE Least(stops) - 1
    IN  IF stops # {} /\ parts[Least(stops)] = <<>>
        THEN [raised |-> TRUE, role |-> NULL, company |-> NULL,
              duration |-> duration, total_time |-> total_time]
        ELSE [raised |-> FALSE,
              role |-> JoinWith(SubSeq(parts, 1, splitIndex), <<" ">>),
              company |-> JoinWith(SubSeq(parts, splitIndex + 1, Len(parts)),
                                   <<" ">>),
              duration |-> duration, total_time |-> total_time]

MaxWords == 2

\* "Software Engineer Google 2020 - Present 1 year 2 months"
ScenarioLine ==
    <<"S","o","f","t","w","a","r","e"," ","E","n","g","i","n","e","e","r"," ","G","o","o","g","l","e"," ","2","0","2","0"," ","-"," ","P","r","e","s","e","n","t"," ","1"," ","y","e","a","r"," ","2"," ","m","o","n","t","h","s">>

\* "Dev 2020 - Dec 2021 years 2 months": the total-time pattern matches
\* from the last year of the duration on
OverlapLine ==
    <<"D","e","v"," ","2","0","2","0"," ","-"," ","D","e","c"," ","2","0","2","1"," ","y","e","a","r","s"," ","2"," ","m","o","n","t","h","s">>

\* the lines given to the function: words, an optional duration, a word, an
\* optional total time and a word, in this order, joined by a separator
ExperienceLines ==
    LET words == {<<"S","o","f","t","w","a","r","e">>,
                  <<"E","n","g","i","n","e","e","r">>,
                  <<"G","o","o","g","l","e">>,
                  <<"s","e","n","i","o","r">>}
        durations == {<<>>,
                      <<"2","0","2","0"," ","-"," ","P","r","e","s","e","n","t">>,
                      <<"J","a","n"," ","2","0","2","0"," ","-"," ","D","e","c"," ","2","0","2","1">>}
        totals == {<<>>,
                   <<"1"," ","y","e","a","r"," ","2"," ","m","o","n","t","h","s">>,
                   <<"3"," ","y","e","a","r","s">>}
        separators == {<<" ">>, <<"\n", " ">>}
        WordLists(n) == UNION {[1..m -> words] : m \in 0..n}
        NonEmpty(seq) == SelectSeq(seq, LAMBDA x : x # <<>>)
    IN  {ScenarioLine, OverlapLine} \cup
        {JoinWith(NonEmpty(pre \o <<d>> \o mid \o <<t>> \o post), sep) :
            pre \in WordLists(MaxWords), d \in durations, mid \in WordLists(1),
            t \in totals, post \in WordLists(1), sep \in separators}

\* arr.map runs the callback on every item of arr, and the callback reads
\* nothing but its item: a behaviour is the call on one item
ExpInit ==
    /\ CtrlOff
    /\ ExtractIdle
    /\ FnIdle("parseOneLineExperience")
    /\ expItem \in ExperienceLines
    /\ expText = NULL
    /\ expDuration = NULL
    /\ expTotalTime = NULL
    /\ expEntry = NULL
    /\ expRaised = FALSE
    /\ expPc = "match"

\* lines 52-64: the callback normalises the item and applies the two patterns
ExpMatch ==
    /\ expPc = "match"
    /\ expText' = Trim(CollapseSpaces(expItem))
    /\ expDuration' = durationMatch(expText')
    /\ expTotalTime' = totalTimeMatch(expText')
    /\ expPc' = "clean"
    /\ UNCHANGED <<expItem, expEntry, expRaised>>
    /\ UNCHANGED <<ctrlVars, extractVars, jsonLdVars, scrVars, secVars, cleanVars,
                   stepVars>>

\* lines 67-99: it removes the matches, splits and returns the entry
ExpSplit ==
    /\ expPc = "clean"
    /\ LET r == RoleAndCompany(expText, expDuration, expTotalTime)
       IN  /\ expRaised' = r.raised
           /\ expEntry' = IF r.raised THEN NULL
                          ELSE [role |-> r.role, company |-> r.company,
                                duration |-> r.duration,
                                total_time |-> r.total_time]
    /\ expPc' = "done"
    /\ UNCHANGED <<expItem, expText, expDuration, expTotalTime>>
    /\ UNCHANGED <<ctrlVars, extractVars, jsonLdVars, scrVars, secVars, cleanVars,
                   stepVars>>

ExpNext == ExpMatch \/ ExpSplit

ExpSpec == ExpInit /\ [][ExpNext]_vars

----------------------------------------------------------------------------
(* scrapper.js (and unnamed/part_000, which has the same script around      *)
(* parseOneLineExperience): one process per run, profile.json kept between  *)
(* the runs                                                                 *)

Undefined == <<"UNDEFINED">>

\* a JavaScript / JSON value as the accumulator sees it: an array of
\* elements or a single value that is not an array
NoValue == [none |-> TRUE]
Arr(items) == [isArray |-> TRUE, items |-> items, value |-> NoValue]
Single(v) == [isArray |-> FALSE, items |-> <<>>, value |-> v]

\* line 98: fs.writeJson(filePath, existingData, { spaces: 2 }), the document
\* that ends up in the file; JSON.stringify leaves out the members of an
\* object whose value is undefined
Stringify(v) ==
    LET Object(o) == [f \in {g \in DOMAIN o : o[g] # Undefined} |-> o[f]]
    IN  IF v.isArray
        THEN Arr([i \in 1..Len(v.items) |-> Object(v.items[i])])
        ELSE Single(Object(v.value))

AbsentFile == [exists |-> FALSE, valid |-> FALSE, doc |-> NoValue]
CorruptFile == [exists |-> TRUE, valid |-> FALSE, doc |-> NoValue]
JsonFile(doc) == [exists |-> TRUE, valid |-> TRUE, doc |-> doc]

\* lines 23-24: text(sel); el is the innerText of the first element the
\* selector finds, NULL when it finds none
text(el) ==
    IF el = NULL THEN NULL
    ELSE IF Trim(el) = <<>> THEN NULL ELSE Trim(el)

\* lines 5 and 17: profile urls given on the command line
AnnUrl ==
    <<"h","t","t","p","s",":","/","/","w","w","w",".","l","i","n","k","e","d","i","n",".","c","o","m","/","i","n","/","a","n","n","/">>
BobUrl ==
    <<"h","t","t","p","s",":","/","/","w","w","w",".","l","i","n","k","e","d","i","n",".","c","o","m","/","i","n","/","b","o","b","/">>

\* what the page of a url shows when it is scraped: the innerText of
\* h1.top-card-layout__title and of h2.top-card-layout__headline
ScrDoms(url) ==
    IF url = AnnUrl
    THEN {[h1 |-> <<" ","A","n","n"," ">>, h2 |-> <<"C","E","O">>],
          [h1 |-> <<" ","A","n","n"," ">>, h2 |-> NULL]}
    ELSE {[h1 |-> <<" ">>, h2 |-> <<"D","e","v","\n">>]}

\* lines 52-75: the object page.evaluate returns (the fields that follow
\* name and headline are built the same way)
Evaluate(dom) == [name |-> text(dom.h1), headline |-> text(dom.h2)]

\* lines 90-92: if (!Array.isArray(existingData)) existingData = [existingData]
Coerce_none(v) == v
Coerce(v) == IF v.isArray THEN v ELSE Arr(<<v.value>>)

\* line 95: existingData.push(data)
Push_replace(v, d) == Arr(<<d>>)
Push(v, d) == Arr(Append(v.items, d))

MaxRuns == 2
MaxStored == 1

\* what earlier runs, or the user, left in profile.json
ScrFiles ==
    LET stored == {Evaluate(d) : d \in ScrDoms(AnnUrl)}
    IN  {AbsentFile, CorruptFile}
        \cup {JsonFile(Arr(items)) :
                 items \in UNION {[1..n -> stored] : n \in 0..MaxStored}}
        \cup {JsonFile(Single(v)) : v \in stored \cup {[scalar |-> <<"n","u","l","l">>]}}

ScrArgs == {AnnUrl, BobUrl, Undefined, <<>>}

\* line 7: !url
NoUrl(url) == url = Undefined \/ url = <<>>

ScrInit ==
    /\ CtrlOff
    /\ ExtractIdle
    /\ FnIdle("scrapper.js")
    /\ sArgv \in ScrArgs
    /\ sPc = "main"
    /\ sBrowser = "none"
    /\ sData = NULL
    /\ existingData = NULL
    /\ profileJson \in ScrFiles
    /\ sRead = NotRead
    /\ sLoaded = NULL
    /\ sSaved = FALSE
    /\ sError = "none"
    /\ sExit = NoExit
    /\ sRuns = 1

\* a rejected await in the async function: nothing catches it, the process
\* ends with status 1 and browser.close() (line 102) is never reached
Reject(call) ==
    /\ sError' = call
    /\ sPc' = "exited"
    /\ sExit' = 1

\* lines 7-10: no url
ScrUsage ==
    /\ sPc = "main"
    /\ NoUrl(sArgv)
    /\ sPc' = "exited"
    /\ sExit' = 1
    /\ UNCHANGED <<sArgv, sBrowser, sData, existingData, profileJson, sRead,
                   sLoaded, sSaved, sError, sRuns>>
    /\ UNCHANGED <<ctrlVars, extractVars, jsonLdVars, expVars, secVars, cleanVars,
                   stepVars>>

\* lines 12-14: chromium.launch
ScrLaunch ==
    /\ sPc = "main"
    /\ ~NoUrl(sArgv)
    /\ \/ /\ sBrowser' = "open"
          /\ sPc' = "newPage"
          /\ UNCHANGED <<sError, sExit>>
       \/ /\ Reject("launch")
          /\ UNCHANGED sBrowser
    /\ UNCHANGED <<sArgv, sData, existingData, profileJson, sRead, sLoaded,
                   sSaved, sRuns>>
    /\ UNCHANGED <<ctrlVars, extractVars, jsonLdVars, expVars, secVars, cleanVars,
                   stepVars>>

\* lines 16-19: browser.newPage and page.goto (timeout 6000)
ScrGoto ==
    /\ sPc = "newPage"
    /\ \/ /\ sPc' = "evaluate"
          /\ UNCHANGED <<sError, sExit>>
       \/ Reject("newPage")
       \/ Reject("goto")
    /\ UNCHANGED <<sArgv, sBrowser, sData, existingData, profileJson, sRead,
                   sLoaded, sSaved, sRuns>>
    /\ UNCHANGED <<ctrlVars, extractVars, jsonLdVars, expVars, secVars, cleanVars,
                   stepVars>>

\* lines 22-82: page.evaluate, console.log(data), let existingData = []
ScrEvaluate ==
    /\ sPc = "evaluate"
    /\ \/ /\ \E dom \in ScrDoms(sArgv) : sData' = Evaluate(dom)
          /\ sPc' = "pathExists"
          /\ UNCHANGED <<sError, sExit>>
       \/ /\ Reject("evaluate")
          /\ UNCHANGED sData
    /\ existingData' = Arr(<<>>)                               \* line 82
    /\ UNCHANGED <<sArgv, sBrowser, profileJson, sRead, sLoaded, sSaved, sRuns>>
    /\ UNCHANGED <<ctrlVars, extractVars, jsonLdVars, expVars, secVars, cleanVars,
                   stepVars>>

\* lines 85-87: fs.pathExists and fs.readJson
ScrReadJson ==
    /\ sPc = "pathExists"
    /\ \/ /\ ~profileJson.exists
          /\ sPc' = "append"
          /\ UNCHANGED <<existingData, sRead, sError, sExit>>
       \/ /\ profileJson.exists /\ profileJson.valid
          /\ existingData' = profileJson.doc
          /\ sRead' = profileJson.doc
          /\ sPc' = "append"
          /\ UNCHANGED <<sError, sExit>>
       \/ /\ profileJson.exists /\ ~profileJson.valid
          /\ Reject("readJson")
          /\ UNCHANGED <<existingData, sRead>>
       \/ /\ profileJson.exists
          /\ Reject("readJson")                                \* I/O error
          /\ UNCHANGED <<existingData, sRead>>
    /\ UNCHANGED <<sArgv, sBrowser, sData, profileJson, sLoaded, sSaved, sRuns>>
    /\ UNCHANGED <<ctrlVars, extractVars, jsonLdVars, expVars, secVars, cleanVars,
                   stepVars>>

\* lines 90-98: coerce to an array, push, fs.writeJson; push on a value that
\* is not an array is a TypeError
ScrAppend ==
    /\ sPc = "append"
    /\ LET coerced == Coerce(existingData)
       IN  IF ~coerced.isArray
           THEN /\ Reject("push")
                /\ UNCHANGED <<existingData, profileJson, sLoaded, sSaved>>
           ELSE /\ sLoaded' = coerced.items
                /\ existingData' = Push(coerced, sData)
                /\ \/ /\ profileJson' = JsonFile(Stringify(existingData'))
                      /\ sSaved' = TRUE
                      /\ sPc' = "close"
                      /\ UNCHANGED <<sError, sExit>>
                   \/ /\ Reject("writeJson")
                      /\ UNCHANGED <<profileJson, sSaved>>
    /\ UNCHANGED <<sArgv, sBrowser, sData, sRead, sRuns>>
    /\ UNCHANGED <<ctrlVars, extractVars, jsonLdVars, expVars, secVars, cleanVars,
                   stepVars>>

\* line 102: browser.close, then the process ends
ScrClose ==
    /\ sPc = "close"
    /\ \/ /\ sBrowser' = "closed"
          /\ sPc' = "exited"
          /\ sExit' = 0
          /\ UNCHANGED sError
       \/ /\ Reject("close")
          /\ UNCHANGED sBrowser
    /\ UNCHANGED <<sArgv, sData, existingData, profileJson, sRead, sLoaded,
                   sSaved, sRuns>>
    /\ UNCHANGED <<ctrlVars, extractVars, jsonLdVars, expVars, secVars, cleanVars,
                   stepVars>>

\* the script is started again; only profile.json is left of the last run
ScrNextRun ==
    /\ sPc = "exited"
    /\ sRuns < MaxRuns
    /\ sRuns' = sRuns + 1
    /\ sArgv' \in ScrArgs
    /\ sPc' = "main"
    /\ sBrowser' = "none"
    /\ sData' = NULL
    /\ existingData' = NULL
    /\ sRead' = NotRead
    /\ sLoaded' = NULL
    /\ sSaved' = FALSE
    /\ sError' = "none"
    /\ sExit' = NoExit
    /\ UNCHANGED profileJson
    /\ UNCHANGED <<ctrlVars, extractVars, jsonLdVars, expVars, secVars, cleanVars,
                   stepVars>>

ScrNext ==
    \/ ScrUsage
    \/ ScrLaunch
    \/ ScrGoto
    \/ ScrEvaluate
    \/ ScrReadJson
    \/ ScrAppend
    \/ ScrClose
    \/ ScrNextRun

ScrSpec == ScrInit /\ [][ScrNext]_vars

----------------------------------------------------------------------------
(* getSectionByHeading, scrapper.js lines 32-49.  The document is the       *)
(* sequence of its h2 elements in document order; an h2 element has its     *)
(* innerText and, when a section element encloses it, the innerText of the  *)
(* li elements of that section.                                             *)

NoSection == <<"NO SECTION">>

MinItemLength == 25

\* lines 35-37: headings.find(...), 0 when find gives undefined
Find(doc, heading) ==
    LET hits == {i \in 1..Len(doc) :
                    LowerText(Trim(doc[i].innerText)) = LowerText(heading)}
    IN  IF hits = {} THEN 0 ELSE Least(hits)

RECURSIVE Distinct(_, _)
\* [...new Set(items)]: the first occurrence of every value, in order
Distinct(items, seen) ==
    IF items = <<>> THEN <<>>
    ELSE IF Head(items) \in seen THEN Distinct(Tail(items), seen)
    ELSE <<Head(items)>> \o Distinct(Tail(items), seen \cup {Head(items)})

SectionItems_noSet(lis) ==
    SelectSeq([i \in 1..Len(lis) |-> Trim(CollapseSpaces(lis[i]))],
              LAMBDA t : Len(t) > MinItemLength)

\* lines 44-48
SectionItems(lis) ==
    Distinct(SelectSeq([i \in 1..Len(lis) |-> Trim(CollapseSpaces(lis[i]))],
                       LAMBDA t : Len(t) > MinItemLength),
             {})

\* lines 32-49 without the test of line 42: querySelectorAll of null
getSectionByHeading_noSectionTest(doc, heading) ==
    LET target == Find(doc, heading)
    IN  IF target = 0 THEN [raised |-> FALSE, items |-> <<>>]
        ELSE IF doc[target].section = NoSection
             THEN [raised |-> TRUE, items |-> <<>>]
             ELSE [raised |-> FALSE, items |-> SectionItems(doc[target].section)]

\* lines 32-49
getSectionByHeading(doc, heading) ==
    LET target == Find(doc, heading)
    IN  IF target = 0 THEN [raised |-> FALSE, items |-> <<>>]
        ELSE IF doc[target].section = NoSection
             THEN [raised |-> FALSE, items |-> <<>>]
             ELSE [raised |-> FALSE, items |-> SectionItems(doc[target].section)]

MaxHeadings == 1
MaxListItems == 2

\* lines 65-73: the labels the script asks for
SecLabels ==
    {<<"E","x","p","e","r","i","e","n","c","e">>,
     <<"S","k","i","l","l","s">>}

\* the h2 elements: innerText of the heading and of the li elements of its
\* section (42 characters, the same with other white space, 25 characters,
\* 26 characters)
H2Elements ==
    LET headingTexts == {<<" ","E","X","P","E","R","I","E","N","C","E","\n">>,
                         <<"E","d","u","c","a","t","i","o","n">>}
        listTexts ==
            {<<"S","o","f","t","w","a","r","e"," ","E","n","g","i","n","e","e","r"," ","a","t"," ","G","o","o","g","l","e"," ","2","0","2","0"," ","-"," ","P","r","e","s","e","n","t">>,
             <<" ","S","o","f","t","w","a","r","e"," ","E","n","g","i","n","e","e","r"," "," ","a","t","\n","G","o","o","g","l","e"," ","2","0","2","0"," ","-"," ","P","r","e","s","e","n","t">>,
             <<"M","e","m","b","e","r"," ","o","f"," ","t","h","e"," ","c","h","e","s","s"," ","c","l","u","b",".">>,
             <<"M","e","m","b","e","r"," ","o","f"," ","t","h","e"," ","c","h","e","s","s"," ","c","l","u","b","s",".">>}
        sections ==
            {NoSection} \cup UNION {[1..n -> listTexts] : n \in 0..MaxListItems}
    IN  [innerText : headingTexts, section : sections]

SecInit ==
    /\ CtrlOff
    /\ ExtractIdle
    /\ FnIdle("getSectionByHeading")
    /\ secDoc \in UNION {[1..n -> H2Elements] : n \in 0..MaxHeadings}
    /\ secHeading \in SecLabels
    /\ secResult = NULL
    /\ secRaised = FALSE
    /\ secPc = "call"

\* lines 32-49: one call
SecCall ==
    /\ secPc = "call"
    /\ LET r == getSectionByHeading(secDoc, secHeading)
       IN  /\ secRaised' = r.raised
           /\ secResult' = IF r.raised THEN NULL ELSE r.items
    /\ secPc' = "done"
    /\ UNCHANGED <<secDoc, secHeading>>
    /\ UNCHANGED <<ctrlVars, extractVars, jsonLdVars, expVars, scrVars, cleanVars,
                   stepVars>>

SecSpec == SecInit /\ [][SecCall]_vars

----------------------------------------------------------------------------
(* cleanText (lines 813-840) applied to a text and then to its own result  *)

MaxPieces == 3

RECURSIVE Concat(_)
Concat(ps) == IF ps = <<>> THEN <<>> ELSE Head(ps) \o Concat(Tail(ps))

\* the texts given to cleanText: up to MaxPieces pieces, concatenated
CleanTexts ==
    LET pieces == {<<"a">>,
                   <<" ">>,
                   <<"\n">>,
                   <<"&","n","b","s","p",";">>,
                   <<"&","a","m","p",";">>,
                   <<"&","l","t",";">>,
                   <<"n","b","s","p",";">>,
                   <<"l","t",";">>,
                   <<"a","m","p",";">>,
                   <<"&","#","3","8",";">>,
                   <<"&","#","x","2","6",";">>,
                   <<"&","#","3","2",";">>}
    IN  {Concat(ps) : ps \in UNION {[1..n -> pieces] : n \in 0..MaxPieces}}

CleanInit ==
    /\ CtrlOff
    /\ ExtractIdle
    /\ FnIdle("cleanText")
    /\ ctText \in CleanTexts
    /\ ctOnce = NULL
    /\ ctTwice = NULL
    /\ ctPc = "raw"

\* cleanText(text)
CleanOnce ==
    /\ ctPc = "raw"
    /\ ctOnce' = cleanText(ctText)
    /\ ctPc' = "once"
    /\ UNCHANGED <<ctText, ctTwice>>
    /\ UNCHANGED <<ctrlVars, extractVars, jsonLdVars, expVars, scrVars, secVars,
                   stepVars>>

\* cleanText of the result
CleanTwice ==
    /\ ctPc = "once"
    /\ ctTwice' = cleanText(ctOnce)
    /\ ctPc' = "twice"
    /\ UNCHANGED <<ctText, ctOnce>>
    /\ UNCHANGED <<ctrlVars, extractVars, jsonLdVars, expVars, scrVars, secVars,
                   stepVars>>

CleanNext == CleanOnce \/ CleanTwice

CleanSpec == CleanInit /\ [][CleanNext]_vars

----------------------------------------------------------------------------
(* closePopups, linkedinscraper.js lines 210-355.  The page is described by  *)
(* what the locators of one call find: for the "View full profile" text, for *)
(* the close button of its dialog and for the Dismiss button whether the     *)
(* first match is absent, hidden or visible; for the selectors of            *)
(* closeButtonSelectors the elements of each, visible or not; and whether a  *)
(* modal is still counted after the Escape key.  Every awaited call may      *)
(* reject.  The timer page.waitForTimeout takes no argument from the page    *)
(* and rejects only when the page has been closed under it; from then on     *)
(* every call on the page rejects.                                           *)

MaxSelectors == 2       \* selectors of closeButtonSelectors that find elements
MaxElements == 1        \* elements one selector finds

PopDoms ==
    LET presence == {"absent", "hidden", "visible"}
        elements == UNION {[1..n -> BOOLEAN] : n \in 0..MaxElements}
    IN  [viewFull : presence,
         closeButton : presence,
         dismiss : presence,
         found : UNION {[1..n -> elements] : n \in 0..MaxSelectors},
         modalsLeft : BOOLEAN]

ReturnsAfterClick_continues == FALSE

\* lines 320-321: "Only close one popup at a time": return popupClosed
ReturnsAfterClick == TRUE

PopInit ==
    /\ CtrlOff
    /\ ExtractIdle
    /\ FnIdle("closePopups")
    /\ popDom \in PopDoms
    /\ popPc = "viewFull"
    /\ popSel = 0
    /\ popEl = 0
    /\ popupClosed = FALSE                                     \* line 213
    /\ popClicks = 0
    /\ popEscapes = 0
    /\ popAlive = TRUE

\* lines 216-246: the "View full profile" popup
PopViewFull ==
    /\ popPc = "viewFull"
    /\ \/ /\ popAlive /\ popDom.viewFull # "visible"           \* lines 221-223
          /\ popPc' = "dismiss"
          /\ UNCHANGED <<popupClosed, popClicks, popEscapes, popAlive>>
       \/ /\ popAlive' \in {popAlive, FALSE}                   \* a call rejects
          /\ popPc' = "dismiss"
          /\ UNCHANGED <<popupClosed, popClicks, popEscapes>>
       \/ /\ popAlive /\ popDom.viewFull = "visible"
          /\ popDom.closeButton = "visible"                    \* lines 227-233
          /\ popClicks' = popClicks + 1
          /\ popupClosed' = TRUE
          /\ UNCHANGED popEscapes
          /\ \/ popPc' = "done" /\ UNCHANGED popAlive
             \/ popPc' = "dismiss" /\ popAlive' = FALSE        \* the wait rejects
       \/ /\ popAlive /\ popDom.viewFull = "visible"
          /\ popDom.closeButton # "visible"                    \* lines 237-241
          /\ popEscapes' = popEscapes + 1
          /\ UNCHANGED popClicks
          /\ \/ popPc' = "done" /\ popupClosed' = TRUE /\ UNCHANGED popAlive
             \/ popPc' = "dismiss" /\ popAlive' = FALSE /\ UNCHANGED popupClosed
    /\ UNCHANGED <<popDom, popSel, popEl>>
    /\ UNCHANGED <<ctrlVars, extractVars, jsonLdVars, expVars, scrVars, secVars,
                   cleanVars, scrollVars>>

\* lines 249-267: the button with the role name Dismiss
PopDismiss ==
    /\ popPc = "dismiss"
    /\ popSel' = 1
    /\ popEl' = 0
    /\ \/ /\ popAlive /\ popDom.dismiss # "visible"            \* lines 254-256
          /\ popPc' = "selectors"
          /\ UNCHANGED <<popupClosed, popClicks, popAlive>>
       \/ /\ popAlive' \in {popAlive, FALSE}                   \* a call rejects
          /\ popPc' = "selectors"
          /\ UNCHANGED <<popupClosed, popClicks>>
       \/ /\ popAlive /\ popDom.dismiss = "visible"            \* lines 258-262
          /\ popClicks' = popClicks + 1
          /\ popupClosed' = TRUE
          /\ \/ popPc' = "done" /\ UNCHANGED popAlive
             \/ popPc' = "selectors" /\ popAlive' = FALSE      \* the wait rejects
    /\ UNCHANGED <<popDom, popEscapes>>
    /\ UNCHANGED <<ctrlVars, extractVars, jsonLdVars, expVars, scrVars, secVars,
                   cleanVars, scrollVars>>

\* lines 302-304 and 327-329: the outer loop takes the next selector and
\* page.locator(selector).all() lists its elements, or rejects
PopSelector ==
    /\ popPc = "selectors"
    /\ \/ popEl = 0
       \/ popSel <= Len(popDom.found) /\ popEl > Len(popDom.found[popSel])
    /\ IF popSel > Len(popDom.found)
          THEN /\ popPc' = "escape"
               /\ UNCHANGED <<popSel, popEl, popAlive>>
          ELSE IF popEl = 0
          THEN \/ /\ popAlive
                  /\ popEl' = 1
                  /\ UNCHANGED <<popPc, popSel, popAlive>>
               \/ /\ popSel' = popSel + 1                      \* all() rejects
                  /\ popAlive' \in {popAlive, FALSE}
                  /\ UNCHANGED <<popPc, popEl>>
          ELSE /\ popSel' = popSel + 1
               /\ popEl' = 0
               /\ UNCHANGED <<popPc, popAlive>>
    /\ UNCHANGED <<popDom, popupClosed, popClicks, popEscapes>>
    /\ UNCHANGED <<ctrlVars, extractVars, jsonLdVars, expVars, scrVars, secVars,
                   cleanVars, scrollVars>>

\* lines 306-326: one element of the selector
PopElement ==
    /\ popPc = "selectors"
    /\ popSel <= Len(popDom.found)
    /\ popEl \in 1..Len(popDom.found[popSel])
    /\ \/ /\ popAlive /\ ~popDom.found[popSel][popEl]          \* not visible
          /\ popEl' = popEl + 1
          /\ UNCHANGED <<popPc, popupClosed, popClicks, popAlive>>
       \/ /\ popAlive' \in {popAlive, FALSE}                   \* a call rejects
          /\ popEl' = popEl + 1
          /\ UNCHANGED <<popPc, popupClosed, popClicks>>
       \/ /\ popAlive /\ popDom.found[popSel][popEl]           \* lines 311-321
          /\ popClicks' = popClicks + 1
          /\ popupClosed' = TRUE
          /\ \/ /\ ReturnsAfterClick
                /\ popPc' = "done"
                /\ UNCHANGED <<popEl, popAlive>>
             \/ /\ ~ReturnsAfterClick
                /\ popEl' = popEl + 1
                /\ UNCHANGED <<popPc, popAlive>>
             \/ /\ popEl' = popEl + 1                          \* the wait rejects
                /\ popAlive' = FALSE
                /\ UNCHANGED popPc
    /\ UNCHANGED <<popDom, popSel, popEscapes>>
    /\ UNCHANGED <<ctrlVars, extractVars, jsonLdVars, expVars, scrVars, secVars,
                   cleanVars, scrollVars>>

\* lines 333-354: the Escape key as the fallback, then return popupClosed
PopEscape ==
    /\ popPc = "escape"
    /\ popPc' = "done"
    /\ IF popupClosed
          THEN UNCHANGED <<popupClosed, popEscapes, popAlive>>
          ELSE \/ /\ popAlive                                  \* lines 336-344
                  /\ popEscapes' = popEscapes + 1
                  /\ \/ /\ popupClosed' = ~popDom.modalsLeft
                        /\ UNCHANGED popAlive
                     \/ /\ popAlive' \in {popAlive, FALSE}     \* wait or count rejects
                        /\ UNCHANGED popupClosed
               \/ /\ popAlive' \in {popAlive, FALSE}           \* press rejects
                  /\ UNCHANGED <<popupClosed, popEscapes>>
    /\ UNCHANGED <<popDom, popSel, popEl, popClicks>>
    /\ UNCHANGED <<ctrlVars, extractVars, jsonLdVars, expVars, scrVars, secVars,
                   cleanVars, scrollVars>>

PopNext ==
    \/ PopViewFull
    \/ PopDismiss
    \/ PopSelector
    \/ PopElement
    \/ PopEscape

PopSpec == PopInit /\ [][PopNext]_vars

----------------------------------------------------------------------------
(* scrollPage, linkedinscraper.js lines 362-392, as the controller calls it *)
(* (line 916: scrollCount = 5).  The page is scHeight screens away from its  *)
(* bottom; content that loads while the page is scrolled may add a screen.   *)
(* Every awaited call of an iteration may reject.                            *)

scrollCount == 5

MaxScreens == 3         \* screens between the top and the bottom of a page

BreaksAtBottom_never(isAtBottom) == FALSE

\* lines 382-385: if (isAtBottom) break
BreaksAtBottom(isAtBottom) == isAtBottom

ScrollInit ==
    /\ CtrlOff
    /\ ExtractIdle
    /\ FnIdle("scrollPage")
    /\ scI = 0                                                 \* line 365
    /\ scSteps = 0
    /\ scPos = 0
    /\ scHeight \in 0..MaxScreens
    /\ scSawBottom = FALSE
    /\ scPc = "loop"

\* lines 365-389: one iteration of the loop
ScrollStep ==
    /\ scPc = "loop"
    /\ scI < scrollCount
    /\ scSteps' = scSteps + 1
    /\ \/ /\ UNCHANGED <<scPos, scHeight, scSawBottom>>        \* scrollBy rejects
          /\ scI' = scI + 1
          /\ UNCHANGED scPc
       \/ /\ scPos' = scPos + 1                                \* lines 368-370
          /\ \E grown \in {scHeight, scHeight + 1} :
                /\ grown <= MaxScreens
                /\ scHeight' = grown
          /\ \/ /\ scI' = scI + 1                              \* wait or check rejects
                /\ UNCHANGED <<scSawBottom, scPc>>
             \/ LET isAtBottom == scPos' >= scHeight'          \* lines 378-380
                IN  /\ scSawBottom' = (scSawBottom \/ isAtBottom)
                    /\ IF BreaksAtBottom(isAtBottom)
                          THEN scPc' = "done" /\ UNCHANGED scI
                          ELSE scI' = scI + 1 /\ UNCHANGED scPc
    /\ UNCHANGED <<ctrlVars, extractVars, jsonLdVars, expVars, scrVars, secVars,
                   cleanVars, popVars>>

\* lines 365 and 391: i has reached scrollCount, the function returns
ScrollReturn ==
    /\ scPc = "loop"
    /\ scI >= scrollCount
    /\ scPc' = "done"
    /\ UNCHANGED <<scI, scSteps, scPos, scHeight, scSawBottom>>
    /\ UNCHANGED <<ctrlVars, extractVars, jsonLdVars, expVars, scrVars, secVars,
                   cleanVars, popVars>>

ScrollNext == ScrollStep \/ ScrollReturn

\* an iteration that has started comes to its end: each awaited call returns
\* or rejects
ScrollSpec == ScrollInit /\ [][ScrollNext]_vars /\ WF_vars(ScrollNext)

----------------------------------------------------------------------------
(* Properties *)

Exited == pc = "exited"

NoSuccessfulAttempt == \A k \in 1..Len(outcomes) : outcomes[k] # "Success"

\* C1: no attempt beyond the MAX_RETRIES-th is ever started, whatever mix of
\* navigation failures, auth walls and thrown errors occurs: every attempt
\* started has an ordinal of at most CONFIG.MAX_RETRIES.
AttemptsBounded == \A a \in 1..attempts : a <= MAX_RETRIES

AttemptsBoundedWitness ==
    /\ Exited
    /\ MAX_RETRIES = 3
    /\ attempts = 3
    /\ outcomes = <<"NavigationFailed", "AuthWallDetected", "Error">>

\* C2: if every attempt fails, the run ends Failed after exactly MAX_RETRIES
\* attempts, scrapeLinkedInProfile throws and main exits with status 1.
FailedAfterExactlyMaxRetries ==
    (Exited /\ ~MainRejects(argv) /\ NoSuccessfulAttempt)
        => (outcome = "Failed" /\ attempts = MAX_RETRIES /\ exitCode = 1)

\* C3: a run that ends Failed never called saveToJson and left the output
\* file as it was.
FailedLeavesStoreUnmodified ==
    outcome = "Failed" => (saveCalls = 0 /\ file = Unmodified)

FailedLeavesStoreUnmodifiedWitness ==
    /\ Exited
    /\ outcome = "Failed"
    /\ exitCode = 1
    /\ MAX_RETRIES = 3
    /\ outcomes = <<"AuthWallDetected", "AuthWallDetected", "AuthWallDetected">>

InAttempt ==
    pc \in {"createContext", "newPage", "navigate", "closePopups1",
            "detectAuthWall", "authWall", "closePopups2", "scrollPage",
            "closePopups3", "content", "extract", "saveToJson"}

\* C4: the browser of an attempt that detected an auth wall has been closed
\* when the attempt is over (so before the next one starts); the running
\* attempt works on a browser, context and page it created itself; and no
\* browser, context or page is used in two attempts.
AuthWallFreshResources ==
    /\ \A k \in 1..Len(outcomes) : \A b \in 1..Len(browsers) :
          (outcomes[k] = "AuthWallDetected" /\ browsers[b].attempt = k)
              => browsers[b].closeCalls >= 1
    /\ InAttempt => /\ browser # 0
                    /\ browsers[browser].attempt = attempts
    /\ (InAttempt /\ context # 0) => /\ contexts[context].attempt = attempts
                                     /\ contexts[context].browser = browser
    /\ (InAttempt /\ page # 0) => /\ pages[page].attempt = attempts
                                  /\ pages[page].context = context
    /\ \A b \in 1..Len(browsers) : browsers[b].usedIn = {browsers[b].attempt}
    /\ \A c \in 1..Len(contexts) : contexts[c].usedIn = {contexts[c].attempt}
    /\ \A q \in 1..Len(pages) : pages[q].usedIn = {pages[q].attempt}

AuthWallFreshResourcesWitness ==
    /\ pc = "navigate"
    /\ attempts = 2
    /\ outcomes = <<"AuthWallDetected">>
    /\ browser = 2 /\ context = 2 /\ page = 2
    /\ browsers[1].closeCalls = 1

\* C5: detectAuthWall returns true exactly when at least one signal is true:
\* a URL pattern (1-3), a DOM marker (4-8), a text marker (9-11) or a title
\* keyword (12-14).
AuthWallIffAnySignal ==
    pc \in {"authWall", "closePopups2"} =>
        (isAuthWall <=>
            \/ authIndicators[1] \/ authIndicators[2] \/ authIndicators[3]
            \/ authIndicators[4] \/ authIndicators[5] \/ authIndicators[6]
            \/ authIndicators[7] \/ authIndicators[8]
            \/ authIndicators[9] \/ authIndicators[10] \/ authIndicators[11]
            \/ authIndicators[12] \/ authIndicators[13] \/ authIndicators[14])

AuthWallIffAnySignalWitness ==
    /\ pc = "authWall"
    /\ isAuthWall
    /\ authIndicators = [i \in 1..NumIndicators |-> i = 13]

\* C6: close() has been called on the browser of every attempt that is over
\* without success, and on every browser launched once the loop is left.
BrowsersReleased ==
    /\ \A b \in 1..Len(browsers) :
          (/\ browsers[b].attempt <= Len(outcomes)
           /\ outcomes[browsers[b].attempt] # "Success")
              => browsers[b].closeCalls >= 1
    /\ pc \in {"final", "mainReturn", "mainCatch", "exited"}
          => \A b \in 1..Len(browsers) : browsers[b].closeCalls >= 1

BrowsersReleasedWitness ==
    /\ Exited
    /\ exitCode = 0
    /\ outcomes = <<"NavigationFailed", "AuthWallDetected", "Success">>
    /\ Len(browsers) = 3

\* C7: the process exits non-zero only when the input was rejected or all
\* attempts were exhausted, and a run with a successful attempt exits 0.
NonZeroExitOnlyRejectedOrExhausted ==
    Exited => /\ exitCode # 0 => (MainRejects(argv) \/ outcome = "Failed")
              /\ success => exitCode = 0

\* C8: a missing URL or one isValidLinkedInUrl refuses makes main exit with
\* status 1 and nothing else: no attempt, no browser, no page, no navigation.
RejectedInputMakesNoAttempt ==
    (Falsy(argv) \/ ~isValidLinkedInUrl(argv)) =>
        /\ pc \in {"main", "exited"}
        /\ attempts = 0
        /\ browsers = <<>> /\ contexts = <<>> /\ pages = <<>>
        /\ Exited => exitCode = 1

RejectedInputMakesNoAttemptWitness ==
    /\ Exited
    /\ exitCode = 1
    /\ argv.given /\ ~argv.empty /\ argv.parses
    /\ ~isValidLinkedInUrl(argv)
    /\ browsers = <<>>

\* C9: for every field the resolved value is the first non-empty candidate
\* in the field's source order, and a field that holds a non-empty value is
\* not changed by any later source.
FirstNonEmptyCandidateWins ==
    /\ [](xpc = "done" => \A f \in Fields : profileData[f] = cand[f])
    /\ [][\A f \in Fields :
             Truthy(profileData[f]) => profileData'[f] = profileData[f]]_vars

JsonLdNeverRaises ==
    /\ ~ldRaised
    /\ \A k \in 1..Len(structuredData) :
           /\ structuredData[k].at \in 1..Len(scripts)
           /\ scripts[structuredData[k].at].body = structuredData[k].type
           /\ structuredData[k].type \in {"Person", "ProfilePage"}
    /\ ldPc = "done" =>
           \A j \in 1..Len(scripts) :
               (scripts[j].typeFirst /\ scripts[j].body \in {"Person", "ProfilePage"})
                   => \E k \in 1..Len(structuredData) : structuredData[k].at = j

\* a scan that met a malformed block and, after it, a Person/ProfilePage block
JsonLdNeverRaisesWitness ==
    /\ ldPc = "done"
    /\ \E i, j \in 1..Len(scripts) :
           /\ i < j
           /\ scripts[i].typeFirst /\ scripts[i].body = "malformed"
           /\ scripts[j].typeFirst /\ scripts[j].body \in {"Person", "ProfilePage"}
           /\ \E k \in 1..Len(structuredData) : structuredData[k].at = j

\* C12: parseOneLineExperience never throws, whatever the lines are
\* (including lines with the duration or total time in the middle, and
\* empty lines)
ParseNeverThrows == ~expRaised

\* C13: on "Software Engineer Google 2020 - Present 1 year 2 months" the
\* entry is role "Software", company "Engineer Google", duration
\* "2020 - Present" without surrounding white space, total time
\* "1 year 2 months"
ScenarioEntry ==
    (expItem = ScenarioLine /\ expPc = "done") =>
        expEntry = [role |-> <<"S","o","f","t","w","a","r","e">>,
                    company |-> <<"E","n","g","i","n","e","e","r"," ","G","o","o","g","l","e">>,
                    duration |-> <<"2","0","2","0"," ","-"," ","P","r","e","s","e","n","t">>,
                    total_time |-> <<"1"," ","y","e","a","r"," ","2"," ","m","o","n","t","h","s">>]

NonArrayWrapped ==
    (sRead # NotRead /\ ~sRead.isArray) =>
        /\ sError \notin {"readJson", "push"}
        /\ sSaved => profileJson = JsonFile(Arr(<<sRead.value, sData>>))

\* a run that found a single object (and one that found null) and saved
NonArrayWrappedWitness ==
    /\ sSaved /\ sExit = 0
    /\ sRead # NotRead /\ ~sRead.isArray
    /\ Len(profileJson.doc.items) = 2

\* C16: after any sequence of runs profile.json holds no duplicates
NoDuplicates ==
    (profileJson.exists /\ profileJson.valid /\ profileJson.doc.isArray) =>
        \A i, j \in 1..Len(profileJson.doc.items) :
            i # j => profileJson.doc.items[i] # profileJson.doc.items[j]

\* the first h2 element whose trimmed text is the label, letter case
\* aside (0: there is none)
MatchingHeading ==
    IF \E i \in 1..Len(secDoc) :
           LowerText(Trim(secDoc[i].innerText)) = LowerText(secHeading)
    THEN CHOOSE i \in 1..Len(secDoc) :
           /\ LowerText(Trim(secDoc[i].innerText)) = LowerText(secHeading)
           /\ \A j \in 1..(i - 1) :
                  LowerText(Trim(secDoc[j].innerText)) # LowerText(secHeading)
    ELSE 0

\* C17: getSectionByHeading returns the empty sequence, and never an error,
\* for a label that matches no heading and for a matching heading that no
\* section encloses
NoHeadingOrSectionGivesEmpty ==
    (secPc = "done"
        /\ (MatchingHeading = 0 \/ secDoc[MatchingHeading].section = NoSection))
    => (~secRaised /\ secResult = <<>>)

\* a finished call whose label matches a heading that no section encloses
NoHeadingOrSectionGivesEmptyWitness ==
    /\ secPc = "done"
    /\ MatchingHeading # 0
    /\ secDoc[MatchingHeading].section = NoSection
    /\ ~secRaised
    /\ secResult = <<>>

\* C18: cleanText is idempotent: cleanText(cleanText(t)) = cleanText(t) for
\* every text t, texts with HTML entities included
CleanTextIdempotent == ctPc = "twice" => ctTwice = ctOnce

\* C19: in the record extractPublicProfileData returns, every scalar field
\* is a non-empty string or null, never the empty string, also when no
\* source gave a value for it
ScalarFieldsNeverEmpty ==
    xpc = "done" => \A f \in Fields : profileData[f] # <<>>

\* C20: when scrapeLinkedInProfile ends in Success, the output file holds
\* exactly the record printed to the console (finalData); Success is not
\* reported after a failed write
SuccessMeansSaved ==
    outcome = "Success" => (file = finalData /\ printed = finalData)

\* C21: whatever MAX_RETRIES is set to, the effective maximum attempt count
\* is at least 1, and a run that ended Failed has made at least one attempt
MaxRetriesAtLeastOne ==
    /\ MAX_RETRIES >= 1
    /\ outcome = "Failed" => attempts >= 1

\* C22: the record a run of the accumulating scraper has written to
\* profile.json carries the url the run was given and a scrape timestamp
WrittenRecordCarriesUrlAndTime ==
    sSaved =>
        LET items == profileJson.doc.items
            rec == items[Len(items)]
            urlKeys == {"profile_url", "profileUrl", "url"}
            timeKeys == {"scraped_at", "scrapedAt", "timestamp"}
        IN  /\ \E k \in DOMAIN rec \cap urlKeys : rec[k] = sArgv
            /\ DOMAIN rec \cap timeKeys # {}

\* C23: a run with a valid url always comes to its end, and it ends in
\* exactly one of the two terminal states: Success (the flag success is set
\* and the last attempt is the only one that succeeded) or Failed (the flag
\* is not set, no attempt succeeded and the attempts are exhausted)
ValidRunEndsSuccessOrFailed ==
    (pc = "main" /\ ~MainRejects(argv)) ~>
        (/\ pc = "exited"
         /\ LET n == Len(outcomes)
                succeeded == {i \in 1..n : outcomes[i] = "Success"}
                endsSuccess == success /\ succeeded = {n} /\ n >= 1
                endsFailed == /\ ~success
                              /\ succeeded = {}
                              /\ retryCount >= MAX_RETRIES
                              /\ n = retryCount
            IN  endsSuccess # endsFailed)

\* a run that ended in Success on its second attempt
ValidRunEndsSuccessOrFailedWitness ==
    /\ pc = "exited"
    /\ ~MainRejects(argv)
    /\ success
    /\ attempts = 2
    /\ outcomes[1] # "Success"

\* C24: within an attempt every stage is entered from the stage before it
\* (navigate, closePopups, detectAuthWall, closePopups, scrollPage,
\* closePopups, page.content, extraction, saveToJson), and the stages from
\* the second closePopups on are entered only when detectAuthWall has
\* returned false for the page of the running attempt
StagesInOrder ==
    [][/\ pc' = "closePopups1" => pc = "navigate"
       /\ pc' = "detectAuthWall" => pc = "closePopups1"
       /\ pc' = "closePopups2" => pc = "detectAuthWall"
       /\ pc' = "scrollPage" => pc = "closePopups2"
       /\ pc' = "closePopups3" => pc = "scrollPage"
       /\ pc' = "content" => pc = "closePopups3"
       /\ pc' = "extract" => pc = "content"
       /\ pc' = "saveToJson" => pc = "extract"
       /\ saveCalls' # saveCalls => pc = "saveToJson"
       /\ pc' \in {"closePopups2", "scrollPage", "closePopups3", "content",
                   "extract", "saveToJson"}
              => /\ ~isAuthWall'
                 /\ page' # 0
                 /\ pages'[page'].attempt = attempts'
                 /\ popupCalls' >= 1]_vars

\* an attempt that went through every stage and has saved its record
StagesInOrderWitness ==
    /\ pc = "loop"
    /\ curOutcome = "Success"
    /\ saveCalls = 1
    /\ popupCalls = 3
    /\ ~isAuthWall

\* C25: a navigation failure (navigateToProfile returned false, or the
\* retrieved html is empty or shorter than 100 characters) sends the attempt
\* to its catch block with no record built or saved; the catch block counts
\* the retry and returns to the loop without touching record, file or exit
\* status; and when attempts remain the next attempt starts
NavigationFailureFailsAttemptOnly ==
    [][/\ (pc = "content" /\ pc' # "catch") => html' >= MinHtmlLength
       /\ (pc \in {"navigate", "content"} /\ curOutcome' = "NavigationFailed")
              => /\ pc' = "catch"
                 /\ saveCalls' = 0 /\ ~success'
                 /\ UNCHANGED <<finalData, file, printed, exitCode>>
       /\ (pc = "catch" /\ curOutcome = "NavigationFailed")
              => /\ pc' = "loop"
                 /\ retryCount' = retryCount + 1
                 /\ outcomes' = Append(outcomes, "NavigationFailed")
                 /\ UNCHANGED <<finalData, file, saveCalls, printed, exitCode>>
       /\ (pc = "loop" /\ curOutcome = "NavigationFailed"
              /\ retryCount < MAX_RETRIES)
              => /\ pc' = "startBrowser"
                 /\ attempts' = attempts + 1
                 /\ exitCode' = NoExit]_vars

\* the second attempt has started after a first one whose html was too short
NavigationFailureFailsAttemptOnlyWitness ==
    /\ pc = "startBrowser"
    /\ attempts = 2
    /\ outcomes = <<"NavigationFailed">>
    /\ html = 99
    /\ exitCode = NoExit

AtMostOneDismissal ==
    /\ popClicks + popEscapes <= 1
    /\ (popClicks + popEscapes = 1 /\ popAlive) => popPc = "done"

\* a call that returned after its one click although the Dismiss button, an
\* element of the first selector and an element of the second were visible
AtMostOneDismissalWitness ==
    /\ popPc = "done"
    /\ popClicks = 1
    /\ popEscapes = 0
    /\ popAlive
    /\ popDom.dismiss = "visible"
    /\ Len(popDom.found) = 2
    /\ popDom.found[1] = <<TRUE>>
    /\ popDom.found[2] = <<TRUE>>
    /\ popSel = 1

\* C28: when an attempt starts, the wait that preceded it is 2000 ms times
\* the number of attempts that failed before it: none before the first
\* attempt, 2000*k after k failed attempts
BackoffGrowsLinearly ==
    [][attempts' = attempts + 1
          => /\ Len(outcomes) = attempts
             /\ \A i \in 1..Len(outcomes) : outcomes[i] # "Success"
             /\ backoff' = 2000 * Len(outcomes)
             /\ (attempts = 0 => backoff' = 0)]_vars

\* the third attempt is running, after a wait of 4000 ms
BackoffGrowsLinearlyWitness ==
    /\ attempts = 3
    /\ Len(outcomes) = 2
    /\ backoff = 4000
    /\ pc = "navigate"

\* C29: scrollPage makes at most scrollCount (5) scroll steps, makes no
\* step after a bottom check has returned true, and always returns, also
\* when steps reject
ScrollIsBoundedAndReturns ==
    /\ [](scSteps <= 5)
    /\ [][scSawBottom => scSteps' = scSteps]_vars
    /\ <>(scPc = "done")

\* a call that returned at the bottom after a step that rejected
ScrollIsBoundedAndReturnsWitness ==
    /\ scPc = "done"
    /\ scSawBottom
    /\ scSteps = 3
    /\ scPos = 2
    /\ scI = 2

\* C30: at most one browser the controller launched is open (launched and
\* close() not yet called on it), it is the one the running attempt holds,
\* and when an attempt is about to launch its browser every browser launched
\* before has been closed
OneBrowserAtATime ==
    LET open == {b \in 1..Len(browsers) : browsers[b].closeCalls = 0}
    IN  /\ Cardinality(open) <= 1
        /\ open \subseteq {browser}
        /\ pc = "startBrowser" => open = {}

\* the third attempt holds the only open browser
OneBrowserAtATimeWitness ==
    /\ pc = "navigate"
    /\ attempts = 3
    /\ Len(browsers) = 3
    /\ browsers[1].closeCalls >= 1
    /\ browsers[2].closeCalls >= 1
    /\ browsers[3].closeCalls = 0
    /\ outcomes = <<"Error", "AuthWallDetected">>

\* C31: retryCount is the number of attempts that are over and failed (one
\* count per failed attempt, none for the successful one), and the
\* retry_count of the record an attempt built is the number of failed
\* attempts before it
RetryCountCountsFailedAttempts ==
    LET failed == {i \in 1..Len(outcomes) : outcomes[i] # "Success"}
    IN  /\ retryCount = Cardinality(failed)
        /\ pc = "catch" => Len(outcomes) = attempts - 1
        /\ pc = "loop" => Len(outcomes) = attempts
        /\ (pc = "saveToJson" \/ curOutcome = "Success")
              => /\ finalData.retry_count = Cardinality(failed)
                 /\ finalData.retry_count = attempts - 1

\* the third attempt succeeded after an auth wall whose browser.close()
\* rejected (the catch block closed it again) and a thrown error
RetryCountCountsFailedAttemptsWitness ==
    /\ curOutcome = "Success"
    /\ outcomes = <<"AuthWallDetected", "Error", "Success">>
    /\ browsers[1].closeCalls = 2
    /\ retryCount = 2
    /\ finalData.retry_count = 2
    /\ saveCalls = 1

\* C32: saveToJson is called at most once in a run, and once success is set
\* no attempt starts, nothing is saved and neither the record nor the file
\* changes
AtMostOneRecordPersisted ==
    /\ [](saveCalls <= 1)
    /\ [](success => (saveCalls = 1 /\ printed = finalData))
    /\ [][success => UNCHANGED <<attempts, finalData, file, saveCalls,
                                printed>>]_vars

\* a run that succeeded on its second attempt, has left the loop and exited
AtMostOneRecordPersistedWitness ==
    /\ pc = "exited"
    /\ success
    /\ saveCalls = 1
    /\ attempts = 2
    /\ retryCount = 1
    /\ exitCode = 0

\* C33: no content of the embedded metadata makes extractPublicProfileData
\* throw: whatever the JSON-LD blocks and meta tags hold (malformed, missing,
\* or members of unexpected type), the function returns a record.
MetadataNeverMakesExtractionThrow == xpc # "raised"

\* C34: appending never alters or reorders the stored records: once a run
\* of scrapper.js has saved profile.json, the first n elements of the saved
\* array are, in order, the n elements the run loaded (the elements of the
\* stored array, the stored value itself when it was not an array, none when
\* there was no file), and the record of the run is the one element after
\* them.
AppendKeepsStoredRecords ==
    sSaved =>
        LET saved == profileJson.doc
            n == Len(sLoaded)
        IN  /\ saved.isArray
            /\ Len(saved.items) = n + 1
            /\ \A i \in 1..n : saved.items[i] = sLoaded[i]
            /\ saved.items[n + 1] = sData
            /\ sRead = NotRead => n = 0
            /\ (sRead # NotRead /\ sRead.isArray) => sLoaded = sRead.items
            /\ (sRead # NotRead /\ ~sRead.isArray) => sLoaded = <<sRead.value>>

AppendKeepsStoredRecordsWitness ==
    /\ sSaved
    /\ sRuns = 2
    /\ Len(sLoaded) = 2
    /\ Len(profileJson.doc.items) = 3
    /\ sLoaded[2] # sData
    /\ sExit = 0

\* C35: in scrapper.js the browser launched at the start is closed on every
\* exit path: when the process has ended after a launch, the browser of the
\* run is closed, also when navigation timed out, page extraction threw, or
\* reading or writing profile.json failed.
BrowserClosedOnEveryExit ==
    (sPc = "exited" /\ sBrowser # "none") => sBrowser = "closed"

\* C36: extractJsonLd finds a JSON-LD script block whether or not type is
\* the first attribute of the script tag: when the scan has ended, every
\* script element holding a Person or ProfilePage object is among the
\* returned blocks, whatever the attribute order of its opening tag.
JsonLdFoundInAnyAttributeOrder ==
    ldPc = "done" =>
        \A j \in 1..Len(scripts) :
            scripts[j].body \in {"Person", "ProfilePage"}
                => \E k \in 1..Len(structuredData) : structuredData[k].at = j

\* C37: the sequence getSectionByHeading returns for a heading that has a
\* section contains only list-item texts of that section with their white
\* space normalised (runs of white space are one space, none at either end)
\* that are longer than 25 characters; no two entries are equal; and the
\* entries are in the order of their first occurrence among the list items.
SectionResultFilteredDistinctOrdered ==
    (secPc = "done" /\ ~secRaised) =>
        LET target == Find(secDoc, secHeading)
            lis == IF target = 0 \/ secDoc[target].section = NoSection
                   THEN <<>> ELSE secDoc[target].section
            norm == [i \in 1..Len(lis) |-> Trim(CollapseSpaces(lis[i]))]
            first(e) == Least({i \in 1..Len(lis) : norm[i] = e})
        IN  /\ \A k \in 1..Len(secResult) :
                  /\ \E i \in 1..Len(lis) : secResult[k] = norm[i]
                  /\ Len(secResult[k]) > 25
                  /\ \A c \in 1..Len(secResult[k]) :
                        /\ secResult[k][c] \notin {"\n", "\t"}
                        /\ (c > 1 /\ secResult[k][c] = " ")
                              => secResult[k][c - 1] # " "
                  /\ secResult[k][1] # " "
                  /\ secResult[k][Len(secResult[k])] # " "
            /\ \A a, b \in 1..Len(secResult) :
                  a < b => /\ secResult[a] # secResult[b]
                           /\ first(secResult[a]) < first(secResult[b])

\* a section of two list items that differ in white space only: the result
\* is the one normalised text
SectionResultFilteredDistinctOrderedWitness ==
    /\ secPc = "done"
    /\ Len(secDoc) = 1
    /\ Find(secDoc, secHeading) = 1
    /\ secDoc[1].section # NoSection
    /\ Len(secDoc[1].section) = 2
    /\ secDoc[1].section[1] # secDoc[1].section[2]
    /\ Len(secDoc[1].section[1]) > Len(secDoc[1].section[2])
    /\ Len(secResult) = 1
    /\ secResult[1] = secDoc[1].section[2]

\* C38: in an entry parseOneLineExperience returns, the split index is the
\* position of the first token after the first one whose leading character
\* is an uppercase letter, and 1 when there is none; role is the tokens
\* before the split index joined by a space, company the tokens from it, so
\* role holds at least the first token.
SplitAtFirstUppercaseToken ==
    (expPc = "done" /\ ~expRaised) =>
        LET parts == Split(Trim(ReplaceFirst(ReplaceFirst(expText,
                                                          OrEmpty(expDuration)),
                                             OrEmpty(expTotalTime))))
            upper == {i \in 2..Len(parts) :
                         /\ parts[i] # <<>>
                         /\ DigitValue(parts[i][1], UpperLetters) >= 0}
            splitIndex == IF upper = {} THEN 1 ELSE Least(upper) - 1
        IN  /\ splitIndex >= 1
            /\ expEntry.role = JoinWith(SubSeq(parts, 1, splitIndex), <<" ">>)
            /\ expEntry.company =
                   JoinWith(SubSeq(parts, splitIndex + 1, Len(parts)), <<" ">>)

\* C39: for every line on which parseOneLineExperience returns an entry, the
\* words of role followed by the words of company are, in this order and
\* each once, the words of the line that are left when the matched duration
\* and the matched total time have been removed from it (the residual and
\* the two matches together are as long as the line); white space aside,
\* nothing else is lost, duplicated or reordered.
RoleAndCompanyRebuildResidual ==
    (expPc = "done" /\ ~expRaised) =>
        LET Words(t) == SelectSeq(Split(t), LAMBDA w : w # <<>>)
            residual == ReplaceFirst(ReplaceFirst(expText, OrEmpty(expDuration)),
                                     OrEmpty(expTotalTime))
        IN  /\ Words(expEntry.role) \o Words(expEntry.company) = Words(residual)
            /\ Len(expText) = Len(residual) + Len(OrEmpty(expDuration))
                                  + Len(OrEmpty(expTotalTime))

====
